---- MODULE Spec2Model ----
(***************************************************************************)
(* Steganographic codec of stegai-secure: the encode / decode edge         *)
(* functions (keystream cipher, appended frames, bitmap LSB bitstream,     *)
(* decode dispatcher) and the client-side Haar wavelet codec.              *)
(*                                                                         *)
(* Byte buffers (Uint8Array) are sequences of 0..255 with the code's       *)
(* 0-based offsets translated by ByteAt; JavaScript strings are sequences  *)
(* of UTF-16 code units.  A file held in the state is stored run-length    *)
(* encoded (Compress / Expand) so that files of 100000 bytes, the size at  *)
(* which the decoders' limits act, stay small in the state.                *)
(***************************************************************************)
EXTENDS Integers, Sequences, FiniteSets, TLC

VARIABLES carrier, file, message, key, dkey, hist, budget, pc, resp,
          image, secretMessage, stego, wres, wpc,
          arg, ret, fpc,
          authUser, user, session, profile, loading, initialized, effect,
          tasks, authEvents,
          hidingSession, revealSession, isLoadingDefaults,
          defaultModelsChecked, calls

vars == <<carrier, file, message, key, dkey, hist, budget, pc, resp,
          image, secretMessage, stego, wres, wpc, arg, ret, fpc,
          authUser, user, session, profile, loading, initialized, effect,
          tasks, authEvents,
          hidingSession, revealSession, isLoadingDefaults,
          defaultModelsChecked, calls>>

serverVars == <<carrier, file, message, key, dkey, hist, budget, pc, resp>>
waveletVars == <<image, secretMessage, stego, wres, wpc>>
fnVars == <<arg, ret, fpc>>
authVars == <<authUser, user, session, profile, loading, initialized, effect,
              tasks, authEvents>>
onnxVars == <<hidingSession, revealSession, isLoadingDefaults,
              defaultModelsChecked, calls>>
clientVars == <<authVars, onnxVars>>

----------------------------------------------------------------------------
(* Bounds of the model *)

\* encode requests applied in a row to one file
MaxEncodes == 2
\* uint32 fields whose top bit is set are read as this value: it exceeds
\* every buffer length and limit the code compares a uint32 with
U32Huge == 1073741824

(* Program constants *)

\* decodeLSB reads at most this many LSBs and accepts lengths up to it
LSB_LIMIT == 100000
\* dispatcher Method 3: messageLength < 100000
OLD_LIMIT == 100000
EXT_LIMIT == 10000
\* standalone legacy decoder: the scan starts 100 bytes before the end
SCAN_SKIP == 100
\* createBMP: pixel data offset, DIB header size, resolution
BMP_HEADER == 54
DIB_SIZE == 40
BMP_DPI == 2835

----------------------------------------------------------------------------
(* JavaScript values *)

\* a sequence given as a function, evaluated once into a tuple
Array(f) == f \o <<>>

Undefined == -1

\* data[i] of a Uint8Array, 0-based; undefined outside the array
ByteAt(d, i) == IF i >= 0 /\ i < Len(d) THEN d[i + 1] ELSE Undefined

\* storing a value into a Uint8Array element: undefined becomes 0
ToUint8(v) == IF v = Undefined THEN 0 ELSE v % 256

RECURSIVE Pow2(_)
Pow2(n) == IF n <= 0 THEN 1 ELSE 2 * Pow2(n - 1)

\* a ^ b on non-negative integers
RECURSIVE Xor(_, _)
Xor(a, b) ==
  IF a = 0 THEN b
  ELSE IF b = 0 THEN a
  ELSE ((a + b) % 2) + 2 * Xor(a \div 2, b \div 2)

\* Math.ceil(a / 4) * 4
Ceil4(a) == (0 - ((0 - a) \div 4)) * 4

AllAscii(s) == \A i \in 1..Len(s) : s[i] < 128

\* new TextEncoder().encode(s): UTF-8 of the code units of s
RECURSIVE Utf8Encode(_, _)
Utf8Encode(s, i) ==
  IF i > Len(s) THEN <<>>
  ELSE LET c == s[i] IN
    IF c < 128 THEN <<c>> \o Utf8Encode(s, i + 1)
    ELSE IF c < 2048
      THEN <<192 + (c \div 64), 128 + (c % 64)>> \o Utf8Encode(s, i + 1)
    ELSE IF c >= 55296 /\ c <= 56319 /\ i < Len(s)
            /\ s[i + 1] >= 56320 /\ s[i + 1] <= 57343
      THEN LET cp == 65536 + (c - 55296) * 1024 + (s[i + 1] - 56320) IN
           <<240 + (cp \div 262144), 128 + ((cp \div 4096) % 64),
             128 + ((cp \div 64) % 64), 128 + (cp % 64)>>
           \o Utf8Encode(s, i + 2)
    ELSE IF c >= 55296 /\ c <= 57343
      THEN <<239, 191, 189>> \o Utf8Encode(s, i + 1)
    ELSE <<224 + (c \div 4096), 128 + ((c \div 64) % 64), 128 + (c % 64)>>
         \o Utf8Encode(s, i + 1)

TextEncode(s) == IF AllAscii(s) THEN s ELSE Utf8Encode(s, 1)

IsCont(b, lo, hi) == b # Undefined /\ b >= lo /\ b <= hi

\* code units of one code point
CodeUnits(cp) ==
  IF cp < 65536 THEN <<cp>>
  ELSE <<55296 + ((cp - 65536) \div 1024), 56320 + ((cp - 65536) % 1024)>>

\* new TextDecoder().decode(d): UTF-8, malformed input becomes U+FFFD
RECURSIVE Utf8Decode(_, _)
Utf8Decode(d, i) ==
  IF i >= Len(d) THEN <<>>
  ELSE LET b  == ByteAt(d, i)
           b1 == ByteAt(d, i + 1)
           b2 == ByteAt(d, i + 2)
           b3 == ByteAt(d, i + 3)
           lo == IF b = 224 THEN 160 ELSE IF b = 240 THEN 144 ELSE 128
           hi == IF b = 237 THEN 159 ELSE IF b = 244 THEN 143 ELSE 191
       IN
    IF b < 128 THEN <<b>> \o Utf8Decode(d, i + 1)
    ELSE IF b >= 194 /\ b <= 223
      THEN IF IsCont(b1, 128, 191)
           THEN <<(b - 192) * 64 + (b1 - 128)>> \o Utf8Decode(d, i + 2)
           ELSE <<65533>> \o Utf8Decode(d, i + 1)
    ELSE IF b >= 224 /\ b <= 239
      THEN IF ~IsCont(b1, lo, hi) THEN <<65533>> \o Utf8Decode(d, i + 1)
           ELSE IF ~IsCont(b2, 128, 191) THEN <<65533>> \o Utf8Decode(d, i + 2)
           ELSE <<(b - 224) * 4096 + (b1 - 128) * 64 + (b2 - 128)>>
                \o Utf8Decode(d, i + 3)
    ELSE IF b >= 240 /\ b <= 244
      THEN IF ~IsCont(b1, lo, hi) THEN <<65533>> \o Utf8Decode(d, i + 1)
           ELSE IF ~IsCont(b2, 128, 191) THEN <<65533>> \o Utf8Decode(d, i + 2)
           ELSE IF ~IsCont(b3, 128, 191) THEN <<65533>> \o Utf8Decode(d, i + 3)
           ELSE CodeUnits((b - 240) * 262144 + (b1 - 128) * 4096
                          + (b2 - 128) * 64 + (b3 - 128))
                \o Utf8Decode(d, i + 4)
    ELSE <<65533>> \o Utf8Decode(d, i + 1)

\* the decoder drops a leading byte order mark
TextDecode(d) ==
  IF AllAscii(d) THEN d
  ELSE IF Len(d) >= 3 /\ d[1] = 239 /\ d[2] = 187 /\ d[3] = 191
    THEN Utf8Decode(d, 3)
    ELSE Utf8Decode(d, 0)

\* DataView.getUint32(off, false); RangeError when the view is too short
U32Cap(b0, rest) == IF b0 >= 128 THEN U32Huge ELSE b0 * 16777216 + rest

getUint32BE(d, off) ==
  U32Cap(d[off + 1], d[off + 2] * 65536 + d[off + 3] * 256 + d[off + 4])

getUint32LE(d, off) ==
  U32Cap(d[off + 4], d[off + 3] * 65536 + d[off + 2] * 256 + d[off + 1])

getInt32LE(d, off) ==
  LET low == d[off + 3] * 65536 + d[off + 2] * 256 + d[off + 1] IN
  IF d[off + 4] >= 128 THEN (d[off + 4] - 256) * 16777216 + low
  ELSE d[off + 4] * 16777216 + low

getUint16LE(d, off) == d[off + 2] * 256 + d[off + 1]

\* DataView.setUint32(_, v, false) into a fresh 4-byte array
U32BE(v) ==
  <<(v \div 16777216) % 256, (v \div 65536) % 256, (v \div 256) % 256, v % 256>>

\* byte k (0..3) of the little-endian form of v >= 0
LEByte(v, k) == (v \div Pow2(8 * k)) % 256

\* Uint8Array.slice(a, b) with 0 <= a
Slice(d, a, b) ==
  LET e == IF b > Len(d) THEN Len(d) ELSE b IN
  IF a >= e THEN <<>> ELSE SubSeq(d, a + 1, e)

----------------------------------------------------------------------------
(* Run-length form of a file in the state *)

Run(b, n) == [b |-> b, n |-> n]

RECURSIVE Expand(_)
Expand(r) ==
  IF r = <<>> THEN <<>>
  ELSE IF Len(r) = 1 THEN [i \in 1..r[1].n |-> r[1].b]
  ELSE LET half == Len(r) \div 2 IN
       Expand(SubSeq(r, 1, half)) \o Expand(SubSeq(r, half + 1, Len(r)))

MinOf(S) == CHOOSE s \in S : \A t \in S : s <= t

RECURSIVE RunsOf(_, _)
RunsOf(d, starts) ==
  IF starts = {} THEN <<>>
  ELSE LET s    == MinOf(starts)
           rest == starts \ {s}
           e    == IF rest = {} THEN Len(d) + 1 ELSE MinOf(rest)
       IN <<Run(d[s], e - s)>> \o RunsOf(d, rest)

Compress(d) == RunsOf(d, {i \in 1..Len(d) : i = 1 \/ d[i] # d[i - 1]})

----------------------------------------------------------------------------
(* Markers *)

STEGO == <<83, 84, 69, 71, 79>>
STEGO_START == <<60, 60, 83, 84, 69, 71, 79, 95, 83, 84, 65, 82, 84, 62, 62>>
STEGO_END == <<60, 60, 83, 84, 69, 71, 79, 95, 69, 78, 68, 62, 62>>
END_MARKER == <<60, 60, 69, 78, 68, 62, 62>>

----------------------------------------------------------------------------
(* Keystream cipher *)

XorWithKey(s, k) ==
  IF k = <<>> THEN s
  ELSE Array([i \in 1..Len(s) |-> Xor(s[i], k[((i - 1) % Len(k)) + 1])])

encryptMessage(m, k) == XorWithKey(m, k)

\* decryptMessage reading key.charCodeAt(i) without wrapping: past the end
\* of the key charCodeAt is NaN and the XOR leaves the code unit alone
decryptMessage_NoWrap(encrypted, k) ==
  IF k = <<>> THEN encrypted
  ELSE Array([i \in 1..Len(encrypted) |->
         IF i <= Len(k) THEN Xor(encrypted[i], k[i]) ELSE encrypted[i]])

decryptMessage(encrypted, k) == XorWithKey(encrypted, k)

----------------------------------------------------------------------------
(* Bitmap pixel codec *)

Null == [tag |-> "null"]
Throw == [tag |-> "throw"]

BitWeight == <<128, 64, 32, 16, 8, 4, 2, 1>>

\* bit k (0-based, MSB first within each byte) of a byte sequence
BitOf(bytes, k) == (bytes[(k \div 8) + 1] \div BitWeight[(k % 8) + 1]) % 2

\* encodeLSB that also refuses a frame filling the plane exactly
encodeLSB_StrictCapacity(pixelData, m) ==
  LET messageBytes == TextEncode(m)
      fullMessage  == U32BE(Len(messageBytes)) \o messageBytes \o END_MARKER
      nbits        == 8 * Len(fullMessage)
  IN IF nbits >= Len(pixelData) THEN Throw
     ELSE [tag |-> "ok",
           pixels |-> Array([i \in 1..Len(pixelData) |->
                         IF i <= nbits
                         THEN (pixelData[i] - (pixelData[i] % 2))
                              + BitOf(fullMessage, i - 1)
                         ELSE pixelData[i]])]

\* encodeLSB that stores the bit without keeping bits 1..7 of the byte
encodeLSB_Overwrite(pixelData, m) ==
  LET messageBytes == TextEncode(m)
      fullMessage  == U32BE(Len(messageBytes)) \o messageBytes \o END_MARKER
      nbits        == 8 * Len(fullMessage)
  IN IF nbits > Len(pixelData) THEN Throw
     ELSE [tag |-> "ok",
           pixels |-> Array([i \in 1..Len(pixelData) |->
                         IF i <= nbits THEN BitOf(fullMessage, i - 1)
                         ELSE pixelData[i]])]

encodeLSB(pixelData, m) ==
  LET messageBytes == TextEncode(m)
      fullMessage  == U32BE(Len(messageBytes)) \o messageBytes \o END_MARKER
      nbits        == 8 * Len(fullMessage)
  IN IF nbits > Len(pixelData) THEN Throw
     ELSE [tag |-> "ok",
           pixels |-> Array([i \in 1..Len(pixelData) |->
                         IF i <= nbits
                         THEN (pixelData[i] - (pixelData[i] % 2))
                              + BitOf(fullMessage, i - 1)
                         ELSE pixelData[i]])]

\* encodeLSB writing into the caller's buffer instead of a clone
PixelDataAfterEncodeLSB_InPlace(pixelData, m) ==
  LET r == encodeLSB(pixelData, m) IN
  IF r.tag = "ok" THEN r.pixels ELSE pixelData

\* the caller's pixelData once encodeLSB has returned or thrown: the embed
\* loop writes to result, a copy made by new Uint8Array(pixelData)
PixelDataAfterEncodeLSB(pixelData, m) == pixelData

\* (length << 1) | bit on a 32-bit signed integer; a missing bit reads as 0
Shl1Or(acc, bit) ==
  LET u == IF acc >= 0 THEN acc ELSE (acc + 2147483647) + 1
      b == IF bit = Undefined THEN 0 ELSE bit
  IN IF u >= 1073741824 THEN 2 * ((u - 2147483647) - 1) + b ELSE 2 * u + b

RECURSIVE LsbLength(_, _, _, _)
LsbLength(pixelData, nbits, i, acc) ==
  IF i >= 32 THEN acc
  ELSE LsbLength(pixelData, nbits, i + 1,
                 Shl1Or(acc, IF i < nbits THEN pixelData[i + 1] % 2
                             ELSE Undefined))

\* the largest bitIndex the byte loop reads: i = length - 1, j = 7
LastBitIndex(length) == 32 + (length - 1) * 8 + 7

\* decodeLSB that returns null unless the 56 bits after the message spell
\* "<<END>>"
decodeLSB_StrictSentinel(pixelData) ==
  LET nbits  == IF Len(pixelData) < LSB_LIMIT THEN Len(pixelData) ELSE LSB_LIMIT
      length == LsbLength(pixelData, nbits, 0, 0)
  IN IF length <= 0 \/ length > LSB_LIMIT THEN Null
     ELSE IF LastBitIndex(length) + 56 >= nbits THEN Null
     ELSE IF \E j \in 1..56 :
               pixelData[32 + length * 8 + j] % 2 # BitOf(END_MARKER, j - 1)
          THEN Null
     ELSE [tag |-> "ok",
           str |-> TextDecode(Array(
             [i \in 1..length |->
                128 * (pixelData[32 + (i - 1) * 8 + 1] % 2)
                + 64 * (pixelData[32 + (i - 1) * 8 + 2] % 2)
                + 32 * (pixelData[32 + (i - 1) * 8 + 3] % 2)
                + 16 * (pixelData[32 + (i - 1) * 8 + 4] % 2)
                + 8 * (pixelData[32 + (i - 1) * 8 + 5] % 2)
                + 4 * (pixelData[32 + (i - 1) * 8 + 6] % 2)
                + 2 * (pixelData[32 + (i - 1) * 8 + 7] % 2)
                + (pixelData[32 + (i - 1) * 8 + 8] % 2)]))]

decodeLSB(pixelData) ==
  LET nbits  == IF Len(pixelData) < LSB_LIMIT THEN Len(pixelData) ELSE LSB_LIMIT
      length == LsbLength(pixelData, nbits, 0, 0)
  IN IF length <= 0 \/ length > LSB_LIMIT THEN Null
     ELSE IF LastBitIndex(length) >= nbits THEN Null
     ELSE [tag |-> "ok",
           str |-> TextDecode(Array(
             [i \in 1..length |->
                128 * (pixelData[32 + (i - 1) * 8 + 1] % 2)
                + 64 * (pixelData[32 + (i - 1) * 8 + 2] % 2)
                + 32 * (pixelData[32 + (i - 1) * 8 + 3] % 2)
                + 16 * (pixelData[32 + (i - 1) * 8 + 4] % 2)
                + 8 * (pixelData[32 + (i - 1) * 8 + 5] % 2)
                + 4 * (pixelData[32 + (i - 1) * 8 + 6] % 2)
                + 2 * (pixelData[32 + (i - 1) * 8 + 7] % 2)
                + (pixelData[32 + (i - 1) * 8 + 8] % 2)]))]

Abs(n) == IF n < 0 THEN 0 - n ELSE n

\* header fields read by both parseBMP functions
BmpHeader(data) ==
  [pixelOffset  |-> getUint32LE(data, 10),
   width        |-> getInt32LE(data, 18),
   height       |-> Abs(getInt32LE(data, 22)),
   bitsPerPixel |-> getUint16LE(data, 28),
   isBottomUp   |-> getInt32LE(data, 22) > 0]

\* source offset of colour c (0 = R, 1 = G, 2 = B) of plane byte k (0-based)
SrcIdx(h, k) ==
  LET bytesPerPixel == h.bitsPerPixel \div 8
      rowSize == Ceil4(h.width * bytesPerPixel)
      y == (k \div 3) \div h.width
      x == (k \div 3) % h.width
      srcY == IF h.isBottomUp THEN h.height - 1 - y ELSE y
  IN h.pixelOffset + srcY * rowSize + x * bytesPerPixel

\* decode function: null for a foreign signature or depth, pixels past the
\* end of the file stay 0
parseBMP_decode(data) ==
  IF ByteAt(data, 0) # 66 \/ ByteAt(data, 1) # 77 THEN Null
  ELSE IF Len(data) < 30 THEN Throw
  ELSE LET h == BmpHeader(data) IN
    IF h.bitsPerPixel # 24 /\ h.bitsPerPixel # 32 THEN Null
    ELSE IF h.width * h.height * 3 < 0 THEN Throw
    ELSE [tag |-> "ok", width |-> h.width, height |-> h.height,
          pixels |-> Array([k \in 1..(h.width * h.height * 3) |->
                        LET srcIdx == SrcIdx(h, k - 1) IN
                        IF srcIdx + 2 < Len(data)
                        THEN data[srcIdx + 2 - ((k - 1) % 3) + 1]
                        ELSE 0])]

\* encode function: every failure is thrown, reads are not guarded
parseBMP_encode(data) ==
  IF ByteAt(data, 0) # 66 \/ ByteAt(data, 1) # 77 THEN Throw
  ELSE IF Len(data) < 30 THEN Throw
  ELSE LET h == BmpHeader(data) IN
    IF h.bitsPerPixel # 24 /\ h.bitsPerPixel # 32 THEN Throw
    ELSE IF h.width * h.height * 3 < 0 THEN Throw
    ELSE [tag |-> "ok", width |-> h.width, height |-> h.height,
          pixels |-> Array([k \in 1..(h.width * h.height * 3) |->
                        ToUint8(ByteAt(data,
                                  SrcIdx(h, k - 1) + 2 - ((k - 1) % 3)))])]

\* the 54 header bytes written by createBMP (0-based offset i)
BmpHeaderByte(i, width, height, fileSize, pixelDataSize) ==
  IF i = 0 THEN 66
  ELSE IF i = 1 THEN 77
  ELSE IF i >= 2 /\ i < 6 THEN LEByte(fileSize, i - 2)
  ELSE IF i >= 10 /\ i < 14 THEN LEByte(BMP_HEADER, i - 10)
  ELSE IF i >= 14 /\ i < 18 THEN LEByte(DIB_SIZE, i - 14)
  ELSE IF i >= 18 /\ i < 22 THEN LEByte(width, i - 18)
  ELSE IF i >= 22 /\ i < 26 THEN LEByte(height, i - 22)
  ELSE IF i = 26 THEN 1
  ELSE IF i = 28 THEN 24
  ELSE IF i >= 34 /\ i < 38 THEN LEByte(pixelDataSize, i - 34)
  ELSE IF i >= 38 /\ i < 42 THEN LEByte(BMP_DPI, i - 38)
  ELSE IF i >= 42 /\ i < 46 THEN LEByte(BMP_DPI, i - 42)
  ELSE 0

\* createBMP writing the rows without padding to a 4-byte boundary
createBMP_Unpadded(width, height, rgbData) ==
  LET rowSize == width * 3
      pixelDataSize == rowSize * height
      fileSize == BMP_HEADER + pixelDataSize
  IN Array([i \in 1..fileSize |->
        IF i <= BMP_HEADER
        THEN BmpHeaderByte(i - 1, width, height, fileSize, pixelDataSize)
        ELSE LET p   == i - 1 - BMP_HEADER
                 y   == height - 1 - (p \div rowSize)
                 col == p % rowSize
             IN rgbData[(y * width + (col \div 3)) * 3 + (2 - (col % 3)) + 1]])

createBMP(width, height, rgbData) ==
  LET rowSize == Ceil4(width * 3)
      pixelDataSize == rowSize * height
      fileSize == BMP_HEADER + pixelDataSize
  IN Array([i \in 1..fileSize |->
        IF i <= BMP_HEADER
        THEN BmpHeaderByte(i - 1, width, height, fileSize, pixelDataSize)
        ELSE LET p   == i - 1 - BMP_HEADER
                 y   == height - 1 - (p \div rowSize)
                 col == p % rowSize
             IN IF col < width * 3
                THEN rgbData[(y * width + (col \div 3)) * 3 + (2 - (col % 3)) + 1]
                ELSE 0])

----------------------------------------------------------------------------
(* Marker search *)

MatchAt(data, markerBytes, i) ==
  \A j \in 1..Len(markerBytes) : data[i + j] = markerBytes[j]

MaxOf(S) == CHOOSE s \in S : \A t \in S : t <= s

\* backward search from the end of the file: the last occurrence, or -1
findMarker(data, marker) ==
  LET markerBytes == TextEncode(marker)
      hits == {i \in 0..(Len(data) - Len(markerBytes)) :
                 MatchAt(data, markerBytes, i)}
  IN IF hits = {} THEN -1 ELSE MaxOf(hits)

\* the standalone legacy decoder starts its scan SCAN_SKIP bytes earlier
findMarkerSkipping(data, markerBytes) ==
  LET hits == {i \in 0..(Len(data) - Len(markerBytes) - SCAN_SKIP) :
                 MatchAt(data, markerBytes, i)}
  IN IF hits = {} THEN -1 ELSE MaxOf(hits)

----------------------------------------------------------------------------
(* Responses *)

NoResponse == [status |-> 0, success |-> FALSE, message |-> <<>>, method |-> ""]
Failure(code) ==
  [status |-> code, success |-> FALSE, message |-> <<>>, method |-> ""]
Stored == [status |-> 200, success |-> TRUE, message |-> <<>>, method |-> ""]
Decoded(m, how) ==
  [status |-> 200, success |-> TRUE, message |-> m, method |-> how]

\* a JavaScript string is falsy exactly when it is empty
Falsy(s) == s = <<>>

----------------------------------------------------------------------------
(* Encode function, current revision: bitmap LSB or New-Append *)

AppendNew(imageData, processedMessage) ==
  LET messageBytes == TextEncode(processedMessage) IN
  imageData \o STEGO_START \o U32BE(Len(messageBytes)) \o messageBytes
            \o STEGO_END

\* [resp, out, how]: the response, the bytes uploaded, the branch taken
EncodeResult(imageData, m, k, uploadOk) ==
  IF Falsy(m) THEN [resp |-> Failure(400), out |-> Null, how |-> "none"]
  ELSE LET processedMessage == encryptMessage(m, k)
           isBMP == ByteAt(imageData, 0) = 66 /\ ByteAt(imageData, 1) = 77
       IN
    IF ~isBMP
    THEN IF uploadOk
         THEN [resp |-> Stored, how |-> "Append-New",
               out |-> [tag |-> "ok",
                        bytes |-> AppendNew(imageData, processedMessage)]]
         ELSE [resp |-> Failure(500), out |-> Null, how |-> "none"]
    ELSE LET parsed == parseBMP_encode(imageData) IN
      IF parsed.tag = "throw"
      THEN [resp |-> Failure(500), out |-> Null, how |-> "none"]
      ELSE LET encodedPixels == encodeLSB(parsed.pixels, processedMessage) IN
        IF encodedPixels.tag = "throw" \/ ~uploadOk
        THEN [resp |-> Failure(500), out |-> Null, how |-> "none"]
        ELSE [resp |-> Stored, how |-> "LSB",
              out |-> [tag |-> "ok",
                       bytes |-> createBMP(parsed.width, parsed.height,
                                           encodedPixels.pixels)]]

(* Encode function, first revision: Legacy-Append *)

\* the legacy frame with its length written little-endian
AppendOld_LittleEndian(uint8Array, processedMessage) ==
  LET messageBytes == TextEncode(processedMessage)
      n == Len(messageBytes)
  IN uint8Array \o STEGO
       \o <<LEByte(n, 0), LEByte(n, 1), LEByte(n, 2), LEByte(n, 3)>>
       \o messageBytes

AppendOld(uint8Array, processedMessage) ==
  LET messageBytes == TextEncode(processedMessage) IN
  uint8Array \o STEGO \o U32BE(Len(messageBytes)) \o messageBytes

LegacyEncodeResult(uint8Array, m, k, uploadOk) ==
  IF Falsy(m) THEN [resp |-> Failure(400), out |-> Null, how |-> "none"]
  ELSE IF ~uploadOk THEN [resp |-> Failure(500), out |-> Null, how |-> "none"]
  ELSE [resp |-> Stored, how |-> "Append-Old",
        out |-> [tag |-> "ok",
                 bytes |-> AppendOld(uint8Array, encryptMessage(m, k))]]

----------------------------------------------------------------------------
(* Decode function, current revision: the dispatcher *)

\* Method 1: [tag |-> "throw"], or the message found ("" when none)
Method1(imageData, decryptionKey) ==
  LET bmpData == parseBMP_decode(imageData) IN
  IF bmpData.tag = "throw" THEN Throw
  ELSE IF bmpData.tag = "null" THEN [tag |-> "ok", str |-> <<>>, hit |-> FALSE]
  ELSE LET lsbMessage == decodeLSB(bmpData.pixels) IN
    IF lsbMessage.tag = "ok" /\ ~Falsy(lsbMessage.str) /\ Len(lsbMessage.str) > 0
    THEN [tag |-> "ok", str |-> decryptMessage(lsbMessage.str, decryptionKey),
          hit |-> TRUE]
    ELSE [tag |-> "ok", str |-> <<>>, hit |-> FALSE]

\* Method 2 without the check that the payload ends before the end marker
Method2_NoEndCheck(imageData, decryptionKey) ==
  LET startMarkerIdx == findMarker(imageData, STEGO_START)
      endMarkerIdx   == findMarker(imageData, STEGO_END)
      lengthStart    == startMarkerIdx + Len(STEGO_START)
  IN
  IF startMarkerIdx # -1 /\ endMarkerIdx # -1 /\ endMarkerIdx > startMarkerIdx
     /\ lengthStart + 4 <= Len(imageData)
  THEN LET messageLength == getUint32BE(imageData, lengthStart)
           messageStart  == lengthStart + 4
           messageEnd    == messageStart + messageLength
       IN [str |-> decryptMessage(
                     TextDecode(Slice(imageData, messageStart, messageEnd)),
                     decryptionKey),
           hit |-> TRUE]
  ELSE [str |-> <<>>, hit |-> FALSE]

\* Method 2: New-Append
Method2(imageData, decryptionKey) ==
  LET startMarkerIdx == findMarker(imageData, STEGO_START)
      endMarkerIdx   == findMarker(imageData, STEGO_END)
      lengthStart    == startMarkerIdx + Len(STEGO_START)
  IN
  IF startMarkerIdx # -1 /\ endMarkerIdx # -1 /\ endMarkerIdx > startMarkerIdx
     /\ lengthStart + 4 <= Len(imageData)
  THEN LET messageLength == getUint32BE(imageData, lengthStart)
           messageStart  == lengthStart + 4
           messageEnd    == messageStart + messageLength
       IN IF messageEnd <= endMarkerIdx
          THEN [str |-> decryptMessage(
                          TextDecode(Slice(imageData, messageStart, messageEnd)),
                          decryptionKey),
                hit |-> TRUE]
          ELSE [str |-> <<>>, hit |-> FALSE]
  ELSE [str |-> <<>>, hit |-> FALSE]

\* Method 3: Legacy-Append
Method3(imageData, decryptionKey) ==
  LET oldMarkerIdx == findMarker(imageData, STEGO)
      lengthStart  == oldMarkerIdx + Len(STEGO)
  IN
  IF oldMarkerIdx # -1 /\ lengthStart + 4 <= Len(imageData)
  THEN LET messageLength == getUint32BE(imageData, lengthStart)
           messageStart  == lengthStart + 4
           messageEnd    == messageStart + messageLength
       IN IF messageLength > 0 /\ messageLength < OLD_LIMIT
             /\ messageEnd <= Len(imageData)
          THEN [str |-> decryptMessage(
                          TextDecode(Slice(imageData, messageStart, messageEnd)),
                          decryptionKey),
                hit |-> TRUE]
          ELSE [str |-> <<>>, hit |-> FALSE]
  ELSE [str |-> <<>>, hit |-> FALSE]

\* the dispatcher with the legacy candidate tried first
DecodeResult_LegacyFirst(imageData, decryptionKey) ==
  LET m3 == Method3(imageData, decryptionKey) IN
  IF ~Falsy(m3.str) THEN Decoded(m3.str, "Append-Old")
  ELSE LET m1 == Method1(imageData, decryptionKey) IN
    IF m1.tag = "throw" THEN Failure(500)
    ELSE IF ~Falsy(m1.str) THEN Decoded(m1.str, "LSB")
    ELSE LET m2 == Method2(imageData, decryptionKey) IN
      IF ~Falsy(m2.str) THEN Decoded(m2.str, "Append-New")
      ELSE Failure(400)

DecodeResult(imageData, decryptionKey) ==
  LET m1 == Method1(imageData, decryptionKey) IN
  IF m1.tag = "throw" THEN Failure(500)
  ELSE IF ~Falsy(m1.str) THEN Decoded(m1.str, "LSB")
  ELSE LET m2 == Method2(imageData, decryptionKey) IN
    IF ~Falsy(m2.str) THEN Decoded(m2.str, "Append-New")
    ELSE LET m3 == Method3(imageData, decryptionKey) IN
      IF ~Falsy(m3.str) THEN Decoded(m3.str, "Append-Old")
      ELSE Failure(400)

(* Decode function, first revision: the standalone legacy decoder *)

LegacyDecodeResult(uint8Array, decryptionKey) ==
  LET markerIndex == findMarkerSkipping(uint8Array, TextEncode(STEGO)) IN
  IF markerIndex = -1 THEN Failure(400)
  ELSE LET lengthStart == markerIndex + Len(STEGO)
           lengthBytes == Slice(uint8Array, lengthStart, lengthStart + 4)
       IN IF Len(lengthBytes) < 4 THEN Failure(500)
          ELSE LET messageLength == getUint32BE(lengthBytes, 0)
                   messageStart  == lengthStart + 4
                   messageBytes  == Slice(uint8Array, messageStart,
                                          messageStart + messageLength)
               IN Decoded(decryptMessage(TextDecode(messageBytes),
                                         decryptionKey), "")

----------------------------------------------------------------------------
(* Wavelet codec: dwt2, idwt2, processEncryption, embedText, extractText *)

\* Float64 values are held as integer multiples of 1/16: every value the
\* codec computes from byte-valued pixels is such a multiple, exactly.
Unit == Pow2(4)

\* -Infinity, the value of Math.max() over no arguments; only its sign
\* survives the clamp to [0,255]
NegInfinity == 0 - Pow2(28)

\* Math.round of a value held in units: floor(v + 0.5)
MathRound(v) == (v + (Unit \div 2)) \div Unit

\* Math.max(0, Math.min(255, v)) of a value held in units
Clamp255(v) ==
  IF v > 255 * Unit THEN 255 * Unit ELSE IF v < 0 THEN 0 ELSE v

\* element i (from 0) of a typed array with initial value 0
At(arr, i) == arr[i + 1]

dwt2(channel, width, height) ==
  LET halfWidth  == width \div 2
      halfHeight == height \div 2
      lowRows  == Array([k \in 1..(halfWidth * height) |->
                    LET y == (k - 1) \div halfWidth
                        x == (k - 1) % halfWidth
                    IN (At(channel, y * width + x * 2)
                        + At(channel, y * width + x * 2 + 1)) \div 2])
      highRows == Array([k \in 1..(halfWidth * height) |->
                    LET y == (k - 1) \div halfWidth
                        x == (k - 1) % halfWidth
                    IN (At(channel, y * width + x * 2)
                        - At(channel, y * width + x * 2 + 1)) \div 2])
      aOf(rows, idx) == At(rows, ((idx \div halfWidth) * 2) * halfWidth
                                  + (idx % halfWidth))
      bOf(rows, idx) == At(rows, ((idx \div halfWidth) * 2 + 1) * halfWidth
                                  + (idx % halfWidth))
      Cells == 1..(halfWidth * halfHeight)
  IN [cA |-> Array([k \in Cells |->
               (aOf(lowRows, k - 1) + bOf(lowRows, k - 1)) \div 2]),
      cH |-> Array([k \in Cells |->
               (aOf(lowRows, k - 1) - bOf(lowRows, k - 1)) \div 2]),
      cV |-> Array([k \in Cells |->
               (aOf(highRows, k - 1) + bOf(highRows, k - 1)) \div 2]),
      cD |-> Array([k \in Cells |->
               (aOf(highRows, k - 1) - bOf(highRows, k - 1)) \div 2]),
      halfWidth |-> halfWidth,
      halfHeight |-> halfHeight]

\* idwt2 that pairs the subbands as the later revisions name them
idwt2_SwappedNaming(cA, cH, cV, cD, halfWidth, halfHeight, originalWidth, originalHeight) ==
  LET Rows(lo, hi) ==
        Array([k \in 1..(halfWidth * originalHeight) |->
          LET row == (k - 1) \div halfWidth
              x   == (k - 1) % halfWidth
              y   == row \div 2
              idx == y * halfWidth + x
          IN IF y >= halfHeight THEN 0
             ELSE IF row % 2 = 0 THEN At(lo, idx) + At(hi, idx)
             ELSE At(lo, idx) - At(hi, idx)])
      lowRows  == Rows(cA, cV)
      highRows == Rows(cH, cD)
  IN Array([k \in 1..(originalWidth * originalHeight) |->
       LET y   == (k - 1) \div originalWidth
           col == (k - 1) % originalWidth
           x   == col \div 2
       IN IF x >= halfWidth THEN 0
          ELSE IF col % 2 = 0
               THEN At(lowRows, y * halfWidth + x) + At(highRows, y * halfWidth + x)
               ELSE At(lowRows, y * halfWidth + x) - At(highRows, y * halfWidth + x)])

idwt2(cA, cH, cV, cD, halfWidth, halfHeight, originalWidth, originalHeight) ==
  LET Rows(lo, hi) ==
        Array([k \in 1..(halfWidth * originalHeight) |->
          LET row == (k - 1) \div halfWidth
              x   == (k - 1) % halfWidth
              y   == row \div 2
              idx == y * halfWidth + x
          IN IF y >= halfHeight THEN 0
             ELSE IF row % 2 = 0 THEN At(lo, idx) + At(hi, idx)
             ELSE At(lo, idx) - At(hi, idx)])
      lowRows  == Rows(cA, cH)
      highRows == Rows(cV, cD)
  IN Array([k \in 1..(originalWidth * originalHeight) |->
       LET y   == (k - 1) \div originalWidth
           col == (k - 1) % originalWidth
           x   == col \div 2
       IN IF x >= halfWidth THEN 0
          ELSE IF col % 2 = 0
               THEN At(lowRows, y * halfWidth + x) + At(highRows, y * halfWidth + x)
               ELSE At(lowRows, y * halfWidth + x) - At(highRows, y * halfWidth + x)])

\* number of binary digits of val after padStart(8, '0')
BinaryDigits(val) ==
  CHOOSE k \in 8..31 : val < Pow2(k) /\ (k = 8 \/ val >= Pow2(k - 1))

\* the complement of every binary digit of val
Complement(val) == Pow2(BinaryDigits(val)) - 1 - val

\* processEncryption that leaves out the normalisation by M
processEncryption_NoNormalization(text) ==
  LET asciiVals == text
      M == IF asciiVals = <<>> THEN NegInfinity
           ELSE MaxOf({asciiVals[i] : i \in 1..Len(asciiVals)})
  IN [normMsg |-> [i \in 1..Len(asciiVals) |-> Complement(asciiVals[i])],
      M |-> M,
      n |-> Len(text)]

processEncryption(text) ==
  LET asciiVals == text
      M == IF asciiVals = <<>> THEN NegInfinity
           ELSE MaxOf({asciiVals[i] : i \in 1..Len(asciiVals)})
  IN [normMsg |-> [i \in 1..Len(asciiVals) |-> Complement(asciiVals[i]) + M],
      M |-> M,
      n |-> Len(text)]

\* green channel of an RGBA image, in units
GreenChannel(imageData) ==
  Array([i \in 1..(imageData.width * imageData.height) |->
           imageData.data[(i - 1) * 4 + 2] * Unit])

\* arr with arr[i] = v (i from 0); a store outside a typed array does nothing
Store(arr, i, v) == IF i < Len(arr) THEN [arr EXCEPT ![i + 1] = v] ELSE arr

\* the stores of embedText with the split at ceil(n / 2)
EmbeddedSubbands_CeilSplit(w, enc) ==
  LET n   == enc.n
      M   == IF n = 0 THEN NegInfinity ELSE enc.M * Unit
      mid == (n + 1) \div 2
  IN [cH |-> Store(Store(w.cH, 0, n * Unit), 1, M),
      cV |-> Array([i \in 1..Len(w.cV) |->
               IF i - 1 < mid THEN enc.normMsg[i] * Unit ELSE w.cV[i]]),
      cD |-> Array([i \in 1..Len(w.cD) |->
               IF i - 1 < n - mid THEN enc.normMsg[mid + i] * Unit
               ELSE w.cD[i]])]

\* the detail subbands after the metadata and the message are stored
EmbeddedSubbands(w, enc) ==
  LET n   == enc.n
      M   == IF n = 0 THEN NegInfinity ELSE enc.M * Unit
      mid == n \div 2
  IN [cH |-> Store(Store(w.cH, 0, n * Unit), 1, M),
      cV |-> Array([i \in 1..Len(w.cV) |->
               IF i - 1 < mid THEN enc.normMsg[i] * Unit ELSE w.cV[i]]),
      cD |-> Array([i \in 1..Len(w.cD) |->
               IF i - 1 < n - mid THEN enc.normMsg[mid + i] * Unit
               ELSE w.cD[i]])]

\* embedText whose capacity counts cV only
embedText_HalfCapacity(imageData, secretText) ==
  LET width  == imageData.width
      height == imageData.height
      data   == imageData.data
      enc    == processEncryption(secretText)
      w      == dwt2(GreenChannel(imageData), width, height)
      maxCapacity == Len(w.cV)
  IN
  IF enc.n > maxCapacity THEN Throw
  ELSE
    LET sub == EmbeddedSubbands(w, enc)
        stegoGreen == idwt2(w.cA, sub.cH, sub.cV, sub.cD,
                            w.halfWidth, w.halfHeight, width, height)
        stegoData == Array([j \in 1..Len(data) |->
                       IF (j - 1) % 4 = 1 /\ (j - 1) \div 4 < width * height
                       THEN MathRound(Clamp255(At(stegoGreen, (j - 1) \div 4)))
                       ELSE data[j]])
    IN [tag |-> "ok",
        image |-> [width |-> width, height |-> height, data |-> stegoData]]

\* embedText that rounds the reconstructed green values without the clamp
embedText_NoClamp(imageData, secretText) ==
  LET width  == imageData.width
      height == imageData.height
      data   == imageData.data
      enc    == processEncryption(secretText)
      w      == dwt2(GreenChannel(imageData), width, height)
      maxCapacity == Len(w.cV) + Len(w.cD)
  IN
  IF enc.n > maxCapacity THEN Throw
  ELSE
    LET sub == EmbeddedSubbands(w, enc)
        stegoGreen == idwt2(w.cA, sub.cH, sub.cV, sub.cD,
                            w.halfWidth, w.halfHeight, width, height)
        stegoData == Array([j \in 1..Len(data) |->
                       IF (j - 1) % 4 = 1 /\ (j - 1) \div 4 < width * height
                       THEN MathRound(At(stegoGreen, (j - 1) \div 4))
                       ELSE data[j]])
    IN [tag |-> "ok",
        image |-> [width |-> width, height |-> height, data |-> stegoData]]

embedText(imageData, secretText) ==
  LET width  == imageData.width
      height == imageData.height
      data   == imageData.data
      enc    == processEncryption(secretText)
      w      == dwt2(GreenChannel(imageData), width, height)
      maxCapacity == Len(w.cV) + Len(w.cD)
  IN
  IF enc.n > maxCapacity THEN Throw
  ELSE
    LET sub == EmbeddedSubbands(w, enc)
        stegoGreen == idwt2(w.cA, sub.cH, sub.cV, sub.cD,
                            w.halfWidth, w.halfHeight, width, height)
        stegoData == Array([j \in 1..Len(data) |->
                       IF (j - 1) % 4 = 1 /\ (j - 1) \div 4 < width * height
                       THEN MathRound(Clamp255(At(stegoGreen, (j - 1) \div 4)))
                       ELSE data[j]])
    IN [tag |-> "ok",
        image |-> [width |-> width, height |-> height, data |-> stegoData]]

\* embedText writing the green bytes into the caller's ImageData
DataAfterEmbedText_InPlace(imageData, secretText) ==
  LET r == embedText(imageData, secretText) IN
  IF r.tag = "ok" THEN r.image.data ELSE imageData.data

\* the caller's ImageData.data once embedText has returned or thrown: it is
\* only read into greenChannel and copied into a new Uint8ClampedArray
DataAfterEmbedText(imageData, secretText) == imageData.data

\* the character extractText appends for coefficient i of arr
ExtractedChar(arr, i, extM, mIsNaN) ==
  IF mIsNaN \/ i >= Len(arr) THEN 255
  ELSE 255 - ((MathRound(At(arr, i)) - extM) % 256)

extractText(imageData) ==
  LET width  == imageData.width
      height == imageData.height
      w      == dwt2(GreenChannel(imageData), width, height)
  IN
  IF Len(w.cH) = 0 THEN [tag |-> "ok", str |-> <<>>]
  ELSE
    LET extN   == MathRound(At(w.cH, 0))
        mIsNaN == Len(w.cH) < 2
        extM   == IF mIsNaN THEN 0 ELSE MathRound(At(w.cH, 1))
    IN
    IF extN <= 0 \/ extN > EXT_LIMIT THEN Throw
    ELSE IF ~mIsNaN /\ (extM <= 0 \/ extM > 255) THEN Throw
    ELSE
      LET mid == extN \div 2 IN
      [tag |-> "ok",
       str |-> [i \in 1..extN |->
                  IF i <= mid THEN ExtractedChar(w.cV, i - 1, extM, mIsNaN)
                  ELSE ExtractedChar(w.cD, i - 1 - mid, extM, mIsNaN)]]

----------------------------------------------------------------------------
(* The later revisions of the Haar transform: cV is the detail of the low
   rows and cH the average of the high rows *)

\* second revision
dwt2Rev2(channel, width, height) ==
  LET halfWidth  == width \div 2
      halfHeight == height \div 2
      lowRows  == Array([k \in 1..(halfWidth * height) |->
                    LET y == (k - 1) \div halfWidth
                        x == (k - 1) % halfWidth
                    IN (At(channel, y * width + x * 2)
                        + At(channel, y * width + x * 2 + 1)) \div 2])
      highRows == Array([k \in 1..(halfWidth * height) |->
                    LET y == (k - 1) \div halfWidth
                        x == (k - 1) % halfWidth
                    IN (At(channel, y * width + x * 2)
                        - At(channel, y * width + x * 2 + 1)) \div 2])
      aOf(rows, idx) == At(rows, ((idx \div halfWidth) * 2) * halfWidth
                                  + (idx % halfWidth))
      bOf(rows, idx) == At(rows, ((idx \div halfWidth) * 2 + 1) * halfWidth
                                  + (idx % halfWidth))
      Cells == 1..(halfWidth * halfHeight)
  IN [cA |-> Array([k \in Cells |->
               (aOf(lowRows, k - 1) + bOf(lowRows, k - 1)) \div 2]),
      cV |-> Array([k \in Cells |->
               (aOf(lowRows, k - 1) - bOf(lowRows, k - 1)) \div 2]),
      cH |-> Array([k \in Cells |->
               (aOf(highRows, k - 1) + bOf(highRows, k - 1)) \div 2]),
      cD |-> Array([k \in Cells |->
               (aOf(highRows, k - 1) - bOf(highRows, k - 1)) \div 2]),
      halfWidth |-> halfWidth,
      halfHeight |-> halfHeight]

idwt2Rev2(cA, cH, cV, cD, halfWidth, halfHeight, originalWidth, originalHeight) ==
  LET Rows(lo, hi) ==
        Array([k \in 1..(halfWidth * originalHeight) |->
          LET row == (k - 1) \div halfWidth
              x   == (k - 1) % halfWidth
              y   == row \div 2
              idx == y * halfWidth + x
          IN IF y >= halfHeight THEN 0
             ELSE IF row % 2 = 0 THEN At(lo, idx) + At(hi, idx)
             ELSE At(lo, idx) - At(hi, idx)])
      lowRows  == Rows(cA, cV)
      highRows == Rows(cH, cD)
  IN Array([k \in 1..(originalWidth * originalHeight) |->
       LET y   == (k - 1) \div originalWidth
           col == (k - 1) % originalWidth
           x   == col \div 2
       IN IF x >= halfWidth THEN 0
          ELSE IF col % 2 = 0
               THEN At(lowRows, y * halfWidth + x) + At(highRows, y * halfWidth + x)
               ELSE At(lowRows, y * halfWidth + x) - At(highRows, y * halfWidth + x)])

\* current revision: each second element of a pair is read and written
\* only if it lies inside the row or column
dwt2Lib(channel, width, height) ==
  LET halfWidth  == width \div 2
      halfHeight == height \div 2
      aIn(k) == At(channel, ((k - 1) \div halfWidth) * width
                             + ((k - 1) % halfWidth) * 2)
      bIn(k) == IF ((k - 1) % halfWidth) * 2 + 1 < width
                THEN At(channel, ((k - 1) \div halfWidth) * width
                                  + ((k - 1) % halfWidth) * 2 + 1)
                ELSE aIn(k)
      tempLow  == Array([k \in 1..(halfWidth * height) |->
                    (aIn(k) + bIn(k)) \div 2])
      tempHigh == Array([k \in 1..(halfWidth * height) |->
                    (aIn(k) - bIn(k)) \div 2])
      aOf(rows, outIdx) ==
        At(rows, ((outIdx \div halfWidth) * 2) * halfWidth + (outIdx % halfWidth))
      bOf(rows, outIdx) ==
        IF (outIdx \div halfWidth) * 2 + 1 < height
        THEN At(rows, ((outIdx \div halfWidth) * 2 + 1) * halfWidth
                       + (outIdx % halfWidth))
        ELSE aOf(rows, outIdx)
      Cells == 1..(halfWidth * halfHeight)
  IN [cA |-> Array([k \in Cells |->
               (aOf(tempLow, k - 1) + bOf(tempLow, k - 1)) \div 2]),
      cV |-> Array([k \in Cells |->
               (aOf(tempLow, k - 1) - bOf(tempLow, k - 1)) \div 2]),
      cH |-> Array([k \in Cells |->
               (aOf(tempHigh, k - 1) + bOf(tempHigh, k - 1)) \div 2]),
      cD |-> Array([k \in Cells |->
               (aOf(tempHigh, k - 1) - bOf(tempHigh, k - 1)) \div 2]),
      halfWidth |-> halfWidth,
      halfHeight |-> halfHeight]

idwt2Lib(cA, cH, cV, cD, halfWidth, halfHeight, originalWidth, originalHeight) ==
  LET Temp(lo, hi) ==
        Array([k \in 1..(halfWidth * originalHeight) |->
          LET row   == (k - 1) \div halfWidth
              x     == (k - 1) % halfWidth
              y     == row \div 2
              inIdx == y * halfWidth + x
          IN IF y >= halfHeight THEN 0
             ELSE IF row % 2 = 0 THEN At(lo, inIdx) + At(hi, inIdx)
             ELSE IF y * 2 + 1 < originalHeight THEN At(lo, inIdx) - At(hi, inIdx)
             ELSE 0])
      tempLow  == Temp(cA, cV)
      tempHigh == Temp(cH, cD)
  IN Array([k \in 1..(originalWidth * originalHeight) |->
       LET y     == (k - 1) \div originalWidth
           col   == (k - 1) % originalWidth
           x     == col \div 2
           inIdx == y * halfWidth + x
       IN IF x >= halfWidth THEN 0
          ELSE IF col % 2 = 0 THEN At(tempLow, inIdx) + At(tempHigh, inIdx)
          ELSE IF x * 2 + 1 < originalWidth
               THEN At(tempLow, inIdx) - At(tempHigh, inIdx)
          ELSE 0])

----------------------------------------------------------------------------
(* Requests: the files, messages and keys the functions are called with *)

Fill(n, b) == Array([i \in 1..n |-> b])

\* byte k of the 32-bit two's complement little-endian form of v
LEByteSigned(v, k) == IF v >= 0 THEN LEByte(v, k) ELSE 255 - LEByte((0 - v) - 1, k)

\* a bitmap file with the given header fields followed by body
RawBmp(widthField, heightField, bitsPerPixel, body) ==
  [i \in 1..BMP_HEADER |->
     IF i = 1 THEN 66
     ELSE IF i = 2 THEN 77
     ELSE IF i >= 3 /\ i <= 6 THEN LEByte(BMP_HEADER + Len(body), i - 3)
     ELSE IF i = 11 THEN BMP_HEADER
     ELSE IF i = 15 THEN DIB_SIZE
     ELSE IF i >= 19 /\ i <= 22 THEN LEByteSigned(widthField, i - 19)
     ELSE IF i >= 23 /\ i <= 26 THEN LEByteSigned(heightField, i - 23)
     ELSE IF i = 27 THEN 1
     ELSE IF i = 29 THEN bitsPerPixel
     ELSE 0] \o body

\* a pixel plane of n bytes whose LSBs spell the length 1 and one byte
LsbPlane(n, byte) ==
  Array([i \in 1..n |->
     IF i = 32 THEN 201
     ELSE IF i > 32 /\ i <= 40 THEN 200 + BitOf(<<byte>>, i - 33)
     ELSE 200])

TextA == <<65>>
TextHi == <<72, 105>>
TextYo == <<89, 111>>
KeyK == <<75>>

Carriers ==
  { <<>>,
    <<137, 80, 78, 71, 13, 10, 26, 10>>,
    <<66, 77, 0, 0>>,
    RawBmp(0 - 4, 4, 24, Fill(16, 0)),
    RawBmp(8, 4, 8, Fill(32, 0)),
    RawBmp(8, 4, 24, Fill(96, 0)),
    RawBmp(6, 6, 24, Fill(120, 255)),
    RawBmp(6, 0 - 6, 32, Fill(144, 7)),
    createBMP(5, 3, LsbPlane(45, 65)),
    createBMP(5, 3, LsbPlane(45, 255)),
    createBMP(5, 3, LsbPlane(45, 65))
      \o STEGO_START \o U32BE(2) \o TextYo \o STEGO_END,
    <<120, 121>> \o STEGO \o U32BE(2) \o TextHi,
    STEGO \o U32BE(9) \o TextHi,
    STEGO \o <<0, 0>>,
    STEGO \o U32BE(0) \o TextHi,
    STEGO \o U32BE(2) \o <<195, 169>>,
    STEGO \o U32BE(3) \o <<97, 98, 99>> \o Fill(SCAN_SKIP, 46),
    STEGO \o U32BE(500) \o Fill(SCAN_SKIP + 4, 122),
    <<113>> \o STEGO_START \o U32BE(2) \o TextHi \o STEGO_END,
    STEGO_START \o U32BE(3) \o TextHi \o STEGO_END,
    STEGO_START \o U32BE(1) \o TextHi \o STEGO_END,
    STEGO_END \o STEGO_START \o U32BE(1) \o TextA,
    STEGO_START \o U32BE(0) \o STEGO_END \o STEGO \o U32BE(1) \o TextA }

Messages == { <<>>, TextA, TextHi, STEGO, STEGO_START }

Keys == { <<>>, KeyK }

SmallScenarios ==
  [carrier : Carriers, message : Messages, key : Keys, dkey : Keys,
   budget : {MaxEncodes}]

\* side of the square bitmap whose plane holds LongLen characters
LongSide == 183
\* the shortest message whose last bit lies past the LSBs decodeLSB reads
LongLen == ((LSB_LIMIT - 32) \div 8) + 1
KeyA == <<65>>

\* requests at the size limits of the decoders: a message that fills more
\* than LSB_LIMIT bits of a bitmap, and legacy frames around OLD_LIMIT bytes
LargeScenarios ==
  { [carrier |-> RawBmp(LongSide, LongSide, 24,
                        Fill(Ceil4(LongSide * 3) * LongSide, 0)),
     message |-> Fill(LongLen, 65), key |-> KeyA, dkey |-> KeyA,
     budget |-> 1] }
  \cup
  { [carrier |-> STEGO \o U32BE(L) \o Fill(L, 65),
     message |-> TextA, key |-> <<>>, dkey |-> <<>>, budget |-> 0] :
    L \in {OLD_LIMIT - 1, OLD_LIMIT, OLD_LIMIT + 1} }

Scenarios == SmallScenarios \cup LargeScenarios

----------------------------------------------------------------------------
(* The state machine: one action per edge function *)

\* the hook is not mounted and no model call was made
ClientIdle ==
  /\ authUser = "none"
  /\ user = "none"
  /\ session = "none"
  /\ profile = "none"
  /\ loading = TRUE
  /\ initialized = FALSE
  /\ effect = [gen |-> 0, live |-> FALSE, initialized |-> FALSE]
  /\ tasks = {}
  /\ authEvents = 0
  /\ hidingSession = "null"
  /\ revealSession = "null"
  /\ isLoadingDefaults = FALSE
  /\ defaultModelsChecked = FALSE
  /\ calls = <<>>

\* no function call in progress
FnIdle ==
  /\ arg = <<>>
  /\ ret = <<>>
  /\ fpc = "idle"

WaveletIdle ==
  /\ image = <<>>
  /\ secretMessage = <<>>
  /\ stego = <<>>
  /\ wres = "none"
  /\ wpc = "idle"

InitFrom(sc) ==
  /\ carrier = Compress(sc.carrier)
  /\ file = Compress(sc.carrier)
  /\ message = sc.message
  /\ key = sc.key
  /\ dkey = sc.dkey
  /\ budget = sc.budget
  /\ hist = <<>>
  /\ pc = "ready"
  /\ resp = NoResponse
  /\ WaveletIdle
  /\ FnIdle
  /\ ClientIdle

Init == \E sc \in Scenarios : InitFrom(sc)

AfterEncode(r) ==
  /\ resp' = r.resp
  /\ file' = IF r.resp.success THEN Compress(r.out.bytes) ELSE file
  /\ hist' = IF r.resp.success THEN Append(hist, r.how) ELSE hist
  /\ pc' = IF r.resp.success THEN "ready" ELSE "failed"
  /\ budget' = budget - 1
  /\ UNCHANGED <<carrier, message, key, dkey>>
  /\ UNCHANGED waveletVars
  /\ UNCHANGED fnVars
  /\ UNCHANGED clientVars

\* encode function, current revision
Encode ==
  /\ pc = "ready"
  /\ budget > 0
  /\ \E uploadOk \in BOOLEAN :
       AfterEncode(EncodeResult(Expand(file), message, key, uploadOk))

\* encode function, first revision
EncodeLegacy ==
  /\ pc = "ready"
  /\ budget > 0
  /\ \E uploadOk \in BOOLEAN :
       AfterEncode(LegacyEncodeResult(Expand(file), message, key, uploadOk))

\* decode function, current revision
Decode ==
  /\ pc = "ready"
  /\ resp' = DecodeResult(Expand(file), dkey)
  /\ pc' = "decoded"
  /\ UNCHANGED <<carrier, file, message, key, dkey, hist, budget>>
  /\ UNCHANGED waveletVars
  /\ UNCHANGED fnVars
  /\ UNCHANGED clientVars

\* decode function, first revision
DecodeLegacy ==
  /\ pc = "ready"
  /\ resp' = LegacyDecodeResult(Expand(file), dkey)
  /\ pc' = "decodedLegacy"
  /\ UNCHANGED <<carrier, file, message, key, dkey, hist, budget>>
  /\ UNCHANGED waveletVars
  /\ UNCHANGED fnVars
  /\ UNCHANGED clientVars

Next == Encode \/ EncodeLegacy \/ Decode \/ DecodeLegacy

Spec == Init /\ [][Next]_vars

----------------------------------------------------------------------------
(* The workspace panel: embedding into and extracting from canvas images *)

\* canvas ImageData of the given size; green[i] is the green byte of pixel i
Rgba(width, height, green) ==
  [width |-> width, height |-> height,
   data |-> Array([j \in 1..(width * height * 4) |->
              CASE (j - 1) % 4 = 0 -> 10
                [] (j - 1) % 4 = 1 -> green[(j - 1) \div 4]
                [] (j - 1) % 4 = 2 -> 20
                [] OTHER -> 255])]

Grey == [i \in 0..23 |-> 128]
Black == [i \in 0..23 |-> 0]
White == [i \in 0..23 |-> 255]
Ramp == [i \in 0..23 |-> (i * 37) % 256]
Stripes == [i \in 0..23 |-> IF i % 2 = 0 THEN 0 ELSE 255]

Images ==
  { Rgba(4, 4, Grey), Rgba(4, 4, Black), Rgba(4, 4, White),
    Rgba(4, 4, Ramp), Rgba(4, 4, Stripes), Rgba(4, 2, Grey),
    Rgba(2, 2, Grey), Rgba(2, 4, Ramp), Rgba(6, 4, Ramp),
    Rgba(5, 3, Ramp), Rgba(1, 4, Grey), Rgba(4, 1, Grey) }

Texts ==
  { <<>>, TextA, TextHi, <<65, 66, 126>>, <<255>>, <<0, 1>>, <<200, 71>>,
    <<300, 65>>, Fill(8, 97), Fill(9, 97) }

ServerIdle ==
  /\ carrier = <<>>
  /\ file = <<>>
  /\ message = <<>>
  /\ key = <<>>
  /\ dkey = <<>>
  /\ budget = 0
  /\ hist = <<>>
  /\ pc = "idle"
  /\ resp = NoResponse

InitDWT ==
  /\ ServerIdle
  /\ image \in Images
  /\ secretMessage \in Texts
  /\ stego = <<>>
  /\ wres = "none"
  /\ wpc = "idle"
  /\ FnIdle
  /\ ClientIdle

\* handleEncrypt: embed the secret message into the source image
Embed ==
  /\ wpc = "idle"
  /\ LET r == embedText(image, secretMessage) IN
       /\ stego' = IF r.tag = "ok" THEN r.image ELSE stego
       /\ wpc' = IF r.tag = "ok" THEN "embedded" ELSE "embedFailed"
  /\ UNCHANGED <<image, secretMessage, wres>>
  /\ UNCHANGED serverVars
  /\ UNCHANGED fnVars
  /\ UNCHANGED clientVars

\* handleDecrypt on the image handleEncrypt produced
Extract ==
  /\ wpc = "embedded"
  /\ wres' = extractText(stego)
  /\ wpc' = "extracted"
  /\ UNCHANGED <<image, secretMessage, stego>>
  /\ UNCHANGED serverVars
  /\ UNCHANGED fnVars
  /\ UNCHANGED clientVars

\* handleDecrypt on an image that was never embedded into
ExtractPlain ==
  /\ wpc = "idle"
  /\ wres' = extractText(image)
  /\ wpc' = "extractedPlain"
  /\ UNCHANGED <<image, secretMessage, stego>>
  /\ UNCHANGED serverVars
  /\ UNCHANGED fnVars
  /\ UNCHANGED clientVars

NextDWT == Embed \/ Extract \/ ExtractPlain

SpecDWT == InitDWT /\ [][NextDWT]_vars

----------------------------------------------------------------------------
(* The workspace panel's 3-bit LSB codec: textToBits, bitsToText, encodeLSB,
   decodeLSB, encodeWithKey, decodeWithKey, getMaxCapacity.  The panel's
   encodeLSB and decodeLSB are named clientEncodeLSB and clientDecodeLSB
   here, the edge function's encodeLSB and decodeLSB having these names. *)

\* code.toString(2)
RECURSIVE ToBinary(_)
ToBinary(code) ==
  IF code < 2 THEN <<code>> ELSE Append(ToBinary(code \div 2), code % 2)

\* s.padStart(8, '0')
PadStart8(s) == IF Len(s) >= 8 THEN s ELSE Fill(8 - Len(s), 0) \o s

\* parseInt(bits.join(''), 2)
RECURSIVE ParseBinary(_)
ParseBinary(bits) ==
  IF bits = <<>> THEN 0
  ELSE 2 * ParseBinary(SubSeq(bits, 1, Len(bits) - 1)) + bits[Len(bits)]

RECURSIVE CharBits(_)
CharBits(text) ==
  IF text = <<>> THEN <<>>
  ELSE PadStart8(ToBinary(Head(text))) \o CharBits(Tail(text))

textToBits(text, pixelCount) ==
  LET bitArray == CharBits(text) \o Fill(8, 0)
      paddingNeeded == IF pixelCount > Len(bitArray)
                       THEN pixelCount - Len(bitArray) ELSE 0
      paddedBits == bitArray \o Fill(paddingNeeded, 0)
  IN SubSeq(paddedBits, 1, pixelCount)

\* the loop of bitsToText from bit offset i
RECURSIVE BitsToTextFrom(_, _)
BitsToTextFrom(bits, i) ==
  IF i >= Len(bits) \/ i + 8 > Len(bits) THEN <<>>
  ELSE LET charCode == ParseBinary(SubSeq(bits, i + 1, i + 8))
       IN IF charCode = 0 THEN <<>>
          ELSE IF charCode >= 32 /\ charCode <= 126
          THEN <<charCode>> \o BitsToTextFrom(bits, i + 8)
          ELSE BitsToTextFrom(bits, i + 8)

bitsToText(bits) == BitsToTextFrom(bits, 0)

\* the low three bits of each colour byte become 000 or 111
ClearedByte(original) == original - (original % 8)

\* encodeLSB that sets only the lowest bit of a colour byte
clientEncodeLSB_OneBit(coverPixels, messageBits, width, height) ==
  LET pixelCount == width * height
      n == IF Len(messageBits) < pixelCount THEN Len(messageBits) ELSE pixelCount
  IN Array([j \in 1..Len(coverPixels) |->
       LET i == (j - 1) \div 4
           c == (j - 1) % 4
       IN IF i < n /\ c < 3
          THEN ClearedByte(coverPixels[j]) + messageBits[i + 1]
          ELSE coverPixels[j]])

clientEncodeLSB(coverPixels, messageBits, width, height) ==
  LET pixelCount == width * height
      n == IF Len(messageBits) < pixelCount THEN Len(messageBits) ELSE pixelCount
  IN Array([j \in 1..Len(coverPixels) |->
       LET i == (j - 1) \div 4
           c == (j - 1) % 4
       IN IF i < n /\ c < 3
          THEN ClearedByte(coverPixels[j]) + messageBits[i + 1] * 7
          ELSE coverPixels[j]])

\* a colour byte votes 1 when its low three bits are at least the threshold 4
clientDecodeLSB(stegoPixels, width, height) ==
  Array([p \in 1..(width * height) |->
    LET vote(c) == LET b == ByteAt(stegoPixels, (p - 1) * 4 + c)
                   IN IF b # Undefined /\ b % 8 >= 4 THEN 1 ELSE 0
    IN IF vote(0) + vote(1) + vote(2) >= 2 THEN 1 ELSE 0])

\* a << 5 as a signed 32-bit integer
Shl5(a) ==
  LET low == a % Pow2(27)
  IN IF low >= Pow2(26) THEN (low - Pow2(27)) * 32 ELSE low * 32

\* key.split('').reduce((a, c) => ((a << 5) - a) + c.charCodeAt(0), 0)
RECURSIVE KeyHash(_, _)
KeyHash(k, a) ==
  IF k = <<>> THEN a ELSE KeyHash(Tail(k), Shl5(a) - a + Head(k))

RECURSIVE BitLength(_)
BitLength(n) == IF n = 0 THEN 0 ELSE 1 + BitLength(n \div 2)

\* a non-negative integer below 2^62 as v * 2^32 + m * 2^16 + l
Carry(n) ==
  LET m == n.m + n.l \div 65536
  IN [v |-> n.v + m \div 65536, m |-> m % 65536, l |-> n.l % 65536]

\* the nearest number a double holds, ties to the even significand
RoundDouble(n) ==
  LET k == IF n.v = 0 THEN 0 ELSE BitLength(n.v) - 21
  IN IF k <= 0 THEN n
     ELSE LET r == n.l % Pow2(k)
              odd == (n.l \div Pow2(k)) % 2 = 1
              up == r > Pow2(k - 1) \/ (r = Pow2(k - 1) /\ odd)
          IN Carry([n EXCEPT !.l = n.l - r + (IF up THEN Pow2(k) ELSE 0)])

\* one step of random(): s = (s * 1103515245 + 12345) & 0x7fffffff
NextSeed(s) ==
  LET s1 == s \div 65536
      s0 == s % 65536
      m1 == 16838
      m0 == 20077
      product == RoundDouble(Carry([v |-> s1 * m1,
                                    m |-> s1 * m0 + s0 * m1,
                                    l |-> s0 * m0]))
      sum == RoundDouble(Carry([product EXCEPT !.l = product.l + 12345]))
  IN (sum.m % 32768) * 65536 + sum.l

\* the first n key bits: random() > 0.5 exactly when s >= 2^30
RECURSIVE KeyBits(_, _)
KeyBits(s, n) ==
  IF n = 0 THEN <<>>
  ELSE LET t == NextSeed(s)
       IN <<IF t >= Pow2(30) THEN 1 ELSE 0>> \o KeyBits(t, n - 1)

\* bits.map(bit => bit ^ keyBit); the empty key leaves the bits alone
MapKeyBits(bits, k) ==
  IF k = <<>> THEN bits
  ELSE LET keyBits == KeyBits(Abs(KeyHash(k, 0)), Len(bits))
       IN Array([i \in 1..Len(bits) |-> (bits[i] + keyBits[i]) % 2])

encodeWithKey(coverPixels, text, k, width, height) ==
  clientEncodeLSB(coverPixels,
                  MapKeyBits(textToBits(text, width * height), k),
                  width, height)

decodeWithKey(stegoPixels, k, width, height) ==
  bitsToText(MapKeyBits(clientDecodeLSB(stegoPixels, width, height), k))

getMaxCapacity(width, height) == (width * height) \div 8 - 1

----------------------------------------------------------------------------
(* Calls of the codec functions on their own *)

Pattern(n) == Array([i \in 1..n |-> (i * 37) % 256])

PlaneSizes == {87, 88, 95, 96, 97, 103, 104, 105, 120}

EncodePlanes ==
  {Fill(n, 0) : n \in PlaneSizes} \cup {Fill(n, 255) : n \in PlaneSizes}
    \cup {Pattern(n) : n \in PlaneSizes}

EncodeMessages == {<<>>, TextA, TextHi, <<233>>}

EncodeLSBCalls ==
  [fn : {"encodeLSB"}, pixelData : EncodePlanes, message : EncodeMessages]

EmbedTextCalls ==
  [fn : {"embedText"}, imageData : Images, secretText : Texts]

CipherTexts ==
  { <<>>, TextA, TextHi, STEGO, <<0>>, <<0, 75, 255>>, <<255, 256, 65535>>,
    <<75, 69, 89, 75, 69, 89, 75>>, <<55357, 56832, 10>> }

CipherKeys ==
  { <<>>, KeyK, <<75, 69, 89>>, <<0>>, <<65535, 1>>, <<128, 0, 255, 7>>,
    <<72, 105>>, STEGO_START }

CipherCalls == [fn : {"cipher"}, x : CipherTexts, k : CipherKeys]

TextHello == <<72, 69, 76, 76, 79>>
PngSignature == <<137, 80, 78, 71, 13, 10, 26, 10>>

LegacyEncodeCalls ==
  [fn : {"legacyEncode"},
   uint8Array : {<<>>, PngSignature, STEGO \o U32BE(1) \o TextA,
                 createBMP(1, 1, <<1, 2, 3>>)},
   m : {<<>>, TextHello, TextA, STEGO, Fill(300, 97)},
   k : {<<>>, KeyK, <<75, 69, 89>>},
   uploadOk : BOOLEAN]

MaxWidth == 5
MaxHeight == 3

BmpRoundTripCalls ==
  { [fn |-> "bmpRoundTrip", width |-> w, height |-> h, rgbData |-> d] :
      <<w, h, d>> \in
        { <<w, h, Pattern(w * h * 3)>> : w \in 1..MaxWidth, h \in 1..MaxHeight }
          \cup
        { <<w, h, Fill(w * h * 3, 255)>> : w \in 1..MaxWidth, h \in 1..MaxHeight } }

ParseBMPCalls == [fn : {"parseBMP"}, data : Carriers]

\* a plane of n bytes whose LSBs spell the bits of bytes, then zeros
BitsPlane(bytes, n) ==
  Array([i \in 1..n |->
     200 + (IF i <= 8 * Len(bytes) THEN BitOf(bytes, i - 1) ELSE 0)])

SmallPlanes ==
  { <<>>, Fill(10, 201), Fill(31, 201),
    BitsPlane(U32BE(0), 64),
    BitsPlane(U32BE(1) \o TextA \o END_MARKER, 96),
    BitsPlane(U32BE(1) \o TextA \o END_MARKER, 200),
    BitsPlane(U32BE(1) \o TextA \o STEGO \o TextHi, 96),
    BitsPlane(U32BE(1) \o TextA, 39),
    BitsPlane(U32BE(1) \o TextA, 40),
    BitsPlane(U32BE(1) \o TextA, 41),
    BitsPlane(U32BE(1) \o TextA, 96),
    BitsPlane(U32BE(2) \o TextHi \o END_MARKER, 104),
    BitsPlane(U32BE(2) \o TextHi, 47),
    BitsPlane(U32BE(2) \o TextHi, 48),
    BitsPlane(U32BE(2) \o TextHi, 104),
    BitsPlane(<<128, 0, 0, 1>> \o TextA, 64),
    BitsPlane(U32BE(LSB_LIMIT), 64),
    BitsPlane(U32BE(LSB_LIMIT + 1), 64),
    BitsPlane(U32BE(1) \o <<255>>, 40),
    BitsPlane(U32BE(2) \o <<195, 169>>, 48),
    BitsPlane(U32BE(3) \o <<239, 187, 191>>, 56) }

\* the longest message the bits read by decodeLSB can hold
MaxReadable == (LSB_LIMIT - 32) \div 8

LargePlanes ==
  { BitsPlane(U32BE(MaxReadable), LSB_LIMIT - 1),
    BitsPlane(U32BE(MaxReadable), LSB_LIMIT),
    BitsPlane(U32BE(MaxReadable), LSB_LIMIT + 100),
    BitsPlane(U32BE(MaxReadable + 1), LSB_LIMIT + 100) }

DecodeLSBPairCalls == [fn : {"decodeLSBPair"}, a : SmallPlanes, b : SmallPlanes]

DecodeLSBCalls ==
  [fn : {"decodeLSB"}, plane : {Compress(p) : p \in SmallPlanes \cup LargePlanes}]

\* the three revisions of the transform pair: the first and second of the
\* wavelet file's history, and the one the workspace panel imports
Revisions == {"first", "second", "current"}

Dwt2Of(rev, channel, width, height) ==
  IF rev = "first" THEN dwt2(channel, width, height)
  ELSE IF rev = "second" THEN dwt2Rev2(channel, width, height)
  ELSE dwt2Lib(channel, width, height)

Idwt2Of(rev, w, width, height) ==
  IF rev = "first"
  THEN idwt2(w.cA, w.cH, w.cV, w.cD, w.halfWidth, w.halfHeight, width, height)
  ELSE IF rev = "second"
  THEN idwt2Rev2(w.cA, w.cH, w.cV, w.cD, w.halfWidth, w.halfHeight, width, height)
  ELSE idwt2Lib(w.cA, w.cH, w.cV, w.cD, w.halfWidth, w.halfHeight, width, height)

\* byte-valued channels, in units
ChannelOf(width, height, green) ==
  [width |-> width, height |-> height,
   channel |-> Array([i \in 1..(width * height) |-> green[i - 1] * Unit])]

Noise == [i \in 0..23 |-> (i * i * 53 + 11) % 256]

Channels ==
  { ChannelOf(wh[1], wh[2], g) :
      wh \in {<<2, 2>>, <<4, 2>>, <<2, 4>>, <<4, 4>>, <<6, 4>>},
      g \in {Grey, Black, White, Ramp, Stripes, Noise} }

\* four subbands of halfWidth * halfHeight coefficients each, in units
SubbandsOf(halfWidth, halfHeight, seed) ==
  LET Cells == 1..(halfWidth * halfHeight) IN
  [cA |-> Array([k \in Cells |-> ((k * 37 + seed) % 256) * Unit]),
   cH |-> Array([k \in Cells |-> ((k * 11 + seed) % 64) - 32]),
   cV |-> Array([k \in Cells |-> (((k + seed) * 29) % 510) * Unit]),
   cD |-> Array([k \in Cells |-> 0 - ((k * 7 + seed * 3) % 100)]),
   halfWidth |-> halfWidth,
   halfHeight |-> halfHeight]

SubbandSets ==
  { SubbandsOf(hw[1], hw[2], seed) :
      hw \in {<<1, 1>>, <<2, 1>>, <<1, 2>>, <<2, 2>>, <<3, 2>>},
      seed \in 0..3 }

HaarCalls ==
  [fn : {"haar"}, rev : Revisions, image : Channels, sub : SubbandSets]

\* character codes at the ends and in the middle of the 8-bit range
EdgeCodes == {0, 1, 65, 127, 128, 255}

CodeTexts ==
  {<<c>> : c \in EdgeCodes} \cup {<<c, d>> : c \in EdgeCodes, d \in EdgeCodes}

ProcessEncryptionCalls ==
  [fn : {"processEncryption"}, text : Texts \cup CodeTexts]

\* green bytes whose first coefficient of cH rounds to a length above the
\* capacity: 128 for a 2 x 2 image, 20 (with M = 100) for a 4 x 4 image
TopRow == [i \in 0..23 |-> IF i < 2 THEN 255 ELSE 0]
TopBlocks == [i \in 0..23 |-> IF i < 2 THEN 40 ELSE IF i < 4 THEN 200 ELSE 0]

\* images handed to extractText: plain ones, images whose green bytes were
\* not written by embedText, and images embedText returned
ExtractImages ==
  Images
    \cup { Rgba(2, 2, TopRow), Rgba(4, 4, TopBlocks), Rgba(2, 2, Ramp),
           Rgba(3, 2, TopRow), Rgba(2, 1, Grey) }
    \cup { r.image : r \in
             { embedText(img, t) :
                 img \in {Rgba(4, 4, Grey), Rgba(6, 4, Ramp), Rgba(4, 2, Grey)},
                 t \in {TextA, TextHi, <<65, 66, 126>>, Fill(8, 97)} }
               \ {Throw} }

ExtractTextCalls == [fn : {"extractText"}, imageData : ExtractImages]

\* carriers and payloads for the standalone legacy decoder; the payloads
\* are shorter than, as long as and longer than the bytes its scan skips
LegacyDecodeCalls ==
  [fn : {"legacyDecode"},
   carrier : {<<>>, PngSignature, Fill(SCAN_SKIP + 50, 0)},
   payload : {TextA, TextHi, TextHello, Fill(SCAN_SKIP - 5, 97),
              Fill(SCAN_SKIP - 4, 97), Fill(SCAN_SKIP - 3, 98),
              Fill(2 * SCAN_SKIP, 99)}]

\* pixel buffers whose bytes, alpha included, differ from byte to byte
PixelFills == {"zero", "full", "mixed"}

PixelBuffer(n, fill) ==
  Array([j \in 1..(4 * n) |->
    CASE fill = "zero" -> 0
      [] fill = "full" -> 255
      [] OTHER -> (j * 37 + 11) % 256])

\* printable messages up to and beyond the capacity of the buffers below
PrintableTexts ==
  { <<>>, <<32>>, <<65>>, <<126>>, TextHi, <<126, 32>>, <<65, 66, 67>>,
    <<32, 126, 65>> }

PanelKeys == { <<>>, <<107>>, <<107, 101, 121>>, <<65, 98, 49, 33>> }

ClientLsbCalls ==
  [fn : {"clientLsb"},
   size : {<<4, 2>>, <<3, 3>>, <<4, 4>>, <<6, 4>>, <<5, 5>>},
   fill : PixelFills,
   message : PrintableTexts,
   key : PanelKeys]

Calls ==
  EncodeLSBCalls \cup EmbedTextCalls \cup CipherCalls \cup LegacyEncodeCalls
    \cup BmpRoundTripCalls \cup ParseBMPCalls \cup DecodeLSBCalls
    \cup DecodeLSBPairCalls \cup HaarCalls
    \cup ProcessEncryptionCalls \cup ExtractTextCalls \cup LegacyDecodeCalls
    \cup ClientLsbCalls

InitFn ==
  /\ ServerIdle
  /\ WaveletIdle
  /\ arg \in Calls
  /\ ret = <<>>
  /\ fpc = "idle"
  /\ ClientIdle

CallEncodeLSB ==
  /\ fpc = "idle"
  /\ arg.fn = "encodeLSB"
  /\ ret' = encodeLSB(arg.pixelData, arg.message)
  /\ arg' = [arg EXCEPT !.pixelData =
                          PixelDataAfterEncodeLSB(arg.pixelData, arg.message)]
  /\ fpc' = "returned"
  /\ UNCHANGED serverVars
  /\ UNCHANGED waveletVars
  /\ UNCHANGED clientVars

CallEmbedText ==
  /\ fpc = "idle"
  /\ arg.fn = "embedText"
  /\ ret' = embedText(arg.imageData, arg.secretText)
  /\ arg' = [arg EXCEPT !.imageData.data =
                          DataAfterEmbedText(arg.imageData, arg.secretText)]
  /\ fpc' = "returned"
  /\ UNCHANGED serverVars
  /\ UNCHANGED waveletVars
  /\ UNCHANGED clientVars

\* encryptMessage, then decryptMessage of its result with the same key
CallCipher ==
  /\ fpc = "idle"
  /\ arg.fn = "cipher"
  /\ ret' = [encrypted |-> encryptMessage(arg.x, arg.k),
             decrypted |-> decryptMessage(encryptMessage(arg.x, arg.k), arg.k)]
  /\ fpc' = "returned"
  /\ UNCHANGED arg
  /\ UNCHANGED serverVars
  /\ UNCHANGED waveletVars
  /\ UNCHANGED clientVars

\* the first revision's encode function, seen through the bytes it uploads
CallLegacyEncode ==
  /\ fpc = "idle"
  /\ arg.fn = "legacyEncode"
  /\ ret' = LegacyEncodeResult(arg.uint8Array, arg.m, arg.k, arg.uploadOk)
  /\ fpc' = "returned"
  /\ UNCHANGED arg
  /\ UNCHANGED serverVars
  /\ UNCHANGED waveletVars
  /\ UNCHANGED clientVars

\* createBMP, then each parseBMP on the file it wrote
CallBmpRoundTrip ==
  /\ fpc = "idle"
  /\ arg.fn = "bmpRoundTrip"
  /\ LET bmp == createBMP(arg.width, arg.height, arg.rgbData) IN
       ret' = [bmp |-> bmp,
               decoder |-> parseBMP_decode(bmp),
               encoder |-> parseBMP_encode(bmp)]
  /\ fpc' = "returned"
  /\ UNCHANGED arg
  /\ UNCHANGED serverVars
  /\ UNCHANGED waveletVars
  /\ UNCHANGED clientVars

\* both parseBMP functions on the same file
CallParseBMP ==
  /\ fpc = "idle"
  /\ arg.fn = "parseBMP"
  /\ ret' = [decoder |-> parseBMP_decode(arg.data),
             encoder |-> parseBMP_encode(arg.data)]
  /\ fpc' = "returned"
  /\ UNCHANGED arg
  /\ UNCHANGED serverVars
  /\ UNCHANGED waveletVars
  /\ UNCHANGED clientVars

CallDecodeLSB ==
  /\ fpc = "idle"
  /\ arg.fn = "decodeLSB"
  /\ ret' = decodeLSB(Expand(arg.plane))
  /\ fpc' = "returned"
  /\ UNCHANGED arg
  /\ UNCHANGED serverVars
  /\ UNCHANGED waveletVars
  /\ UNCHANGED clientVars

\* decodeLSB on two planes
CallDecodeLSBPair ==
  /\ fpc = "idle"
  /\ arg.fn = "decodeLSBPair"
  /\ ret' = [a |-> decodeLSB(arg.a), b |-> decodeLSB(arg.b)]
  /\ fpc' = "returned"
  /\ UNCHANGED arg
  /\ UNCHANGED serverVars
  /\ UNCHANGED waveletVars
  /\ UNCHANGED clientVars

\* idwt2 of dwt2 of a channel, and dwt2 of idwt2 of four subbands
CallHaar ==
  /\ fpc = "idle"
  /\ arg.fn = "haar"
  /\ LET width  == arg.image.width
         height == arg.image.height
         w      == Dwt2Of(arg.rev, arg.image.channel, width, height)
         sw     == 2 * arg.sub.halfWidth
         sh     == 2 * arg.sub.halfHeight
     IN ret' = [subbands |-> w,
                channel  |-> Idwt2Of(arg.rev, w, width, height),
                back     |-> Dwt2Of(arg.rev, Idwt2Of(arg.rev, arg.sub, sw, sh),
                                    sw, sh)]
  /\ fpc' = "returned"
  /\ UNCHANGED arg
  /\ UNCHANGED serverVars
  /\ UNCHANGED waveletVars
  /\ UNCHANGED clientVars

\* processEncryption, then the decryption loop of extractText on its values
CallProcessEncryption ==
  /\ fpc = "idle"
  /\ arg.fn = "processEncryption"
  /\ LET enc == processEncryption(arg.text)
         recoveredNorm == Array([i \in 1..enc.n |-> enc.normMsg[i] * Unit])
     IN ret' = [normMsg |-> enc.normMsg, M |-> enc.M, n |-> enc.n,
                extractedText |->
                  [i \in 1..enc.n |->
                     ExtractedChar(recoveredNorm, i - 1, enc.M, FALSE)]]
  /\ fpc' = "returned"
  /\ UNCHANGED arg
  /\ UNCHANGED serverVars
  /\ UNCHANGED waveletVars
  /\ UNCHANGED clientVars

CallExtractText ==
  /\ fpc = "idle"
  /\ arg.fn = "extractText"
  /\ ret' = extractText(arg.imageData)
  /\ fpc' = "returned"
  /\ UNCHANGED arg
  /\ UNCHANGED serverVars
  /\ UNCHANGED waveletVars
  /\ UNCHANGED clientVars

\* the standalone legacy decoder, with the empty key, on the carrier
\* followed by the legacy frame of the payload
CallLegacyDecode ==
  /\ fpc = "idle"
  /\ arg.fn = "legacyDecode"
  /\ ret' = LegacyDecodeResult(
              arg.carrier \o STEGO \o U32BE(Len(arg.payload)) \o arg.payload,
              <<>>)
  /\ fpc' = "returned"
  /\ UNCHANGED arg
  /\ UNCHANGED serverVars
  /\ UNCHANGED waveletVars
  /\ UNCHANGED clientVars

\* encodeWithKey, then decodeWithKey on the pixels it returned
CallClientLsb ==
  /\ fpc = "idle"
  /\ arg.fn = "clientLsb"
  /\ LET width == arg.size[1]
         height == arg.size[2]
         coverPixels == PixelBuffer(width * height, arg.fill)
         stegoPixels == encodeWithKey(coverPixels, arg.message, arg.key,
                                      width, height)
     IN ret' = [coverPixels |-> coverPixels,
                stegoPixels |-> stegoPixels,
                message |-> decodeWithKey(stegoPixels, arg.key, width, height)]
  /\ fpc' = "returned"
  /\ UNCHANGED arg
  /\ UNCHANGED serverVars
  /\ UNCHANGED waveletVars
  /\ UNCHANGED clientVars

NextFn ==
  \/ CallParseBMP
  \/ CallDecodeLSB
  \/ CallDecodeLSBPair
  \/ CallEncodeLSB
  \/ CallEmbedText
  \/ CallCipher
  \/ CallLegacyEncode
  \/ CallBmpRoundTrip
  \/ CallHaar
  \/ CallProcessEncryption
  \/ CallExtractText
  \/ CallLegacyDecode
  \/ CallClientLsb

SpecFn == InitFn /\ [][NextFn]_vars

----------------------------------------------------------------------------
(* The useAuth hook: the auth-state listener, initializeAuth, the deferred
   profile fetches and signOut, each await being a step of its own *)

\* the auth events and signOut calls of one behaviour
MaxAuthEvents == 3

Users == {"u1", "u2"}

\* isMounted of the effect run that created a callback
IsMounted(gen) == effect.live /\ effect.gen = gen

\* the effect body: isMounted = true, subscribe, call initializeAuth, which
\* awaits getSession
RunEffect(gen) ==
  /\ effect' = [gen |-> gen, live |-> TRUE, initialized |-> initialized]
  /\ tasks' = tasks \cup {[k |-> "getSession", gen |-> gen, uid |-> "none", id |-> 0]}

\* first render and first run of the effect; the client may hold a session
InitAuth ==
  /\ ServerIdle
  /\ WaveletIdle
  /\ FnIdle
  /\ authUser \in Users \cup {"none"}
  /\ user = "none"
  /\ session = "none"
  /\ profile = "none"
  /\ loading = TRUE
  /\ initialized = FALSE
  /\ effect = [gen |-> 1, live |-> TRUE, initialized |-> FALSE]
  /\ tasks = {[k |-> "getSession", gen |-> 1, uid |-> "none", id |-> 0]}
  /\ authEvents = 0
  /\ hidingSession = "null"
  /\ revealSession = "null"
  /\ isLoadingDefaults = FALSE
  /\ defaultModelsChecked = FALSE
  /\ calls = <<>>

AuthFrame ==
  /\ UNCHANGED serverVars
  /\ UNCHANGED waveletVars
  /\ UNCHANGED fnVars
  /\ UNCHANGED onnxVars

\* the listener passed to onAuthStateChange, called with the session of u
Listener(u, pending) ==
  /\ session' = u
  /\ user' = u
  /\ IF u # "none"
     THEN /\ tasks' = pending \cup
                        {[k |-> "timer", gen |-> effect.gen, uid |-> u,
                          id |-> authEvents + 1]}
          /\ UNCHANGED profile
     ELSE /\ profile' = "none"
          /\ tasks' = pending
  /\ loading' = IF effect.initialized THEN FALSE ELSE loading

\* the client's session changes to that of u (none: signed out) and the
\* client tells the subscribed listener
AuthStateChange ==
  /\ authEvents < MaxAuthEvents
  /\ \E u \in Users \cup {"none"} :
       /\ authUser' = u
       /\ IF effect.live THEN Listener(u, tasks)
          ELSE UNCHANGED <<session, user, profile, loading, tasks>>
  /\ authEvents' = authEvents + 1
  /\ UNCHANGED <<initialized, effect>>
  /\ AuthFrame

\* the setTimeout callback of the listener: start the profile fetch
TimerFire ==
  /\ \E t \in tasks :
       /\ t.k = "timer"
       /\ tasks' = IF IsMounted(t.gen)
                   THEN (tasks \ {t}) \cup {[t EXCEPT !.k = "fetch"]}
                   ELSE tasks \ {t}
  /\ UNCHANGED <<authUser, user, session, profile, loading, initialized,
                 effect, authEvents>>
  /\ AuthFrame

\* fetchProfile of the timer callback resolves: the profile of t.uid, or
\* null on an error
FetchDone ==
  /\ \E t \in tasks, ok \in BOOLEAN :
       /\ t.k = "fetch"
       /\ profile' = IF IsMounted(t.gen)
                     THEN (IF ok THEN t.uid ELSE "none")
                     ELSE profile
       /\ tasks' = tasks \ {t}
  /\ UNCHANGED <<authUser, user, session, loading, initialized, effect,
                 authEvents>>
  /\ AuthFrame

\* getSession of initializeAuth resolves or throws
InitGotSession ==
  /\ \E t \in tasks, threw \in BOOLEAN :
       /\ t.k = "getSession"
       /\ IF ~IsMounted(t.gen)
          THEN /\ tasks' = tasks \ {t}
               /\ UNCHANGED <<session, user, initialized, loading>>
          ELSE IF threw
          THEN /\ tasks' = tasks \ {t}
               /\ initialized' = TRUE
               /\ loading' = FALSE
               /\ UNCHANGED <<session, user>>
          ELSE /\ session' = authUser
               /\ user' = authUser
               /\ IF authUser # "none"
                  THEN /\ tasks' = (tasks \ {t}) \cup
                                     {[t EXCEPT !.k = "initFetch", !.uid = authUser]}
                       /\ UNCHANGED <<initialized, loading>>
                  ELSE /\ tasks' = tasks \ {t}
                       /\ initialized' = TRUE
                       /\ loading' = FALSE
  /\ UNCHANGED <<authUser, profile, effect, authEvents>>
  /\ AuthFrame

\* fetchProfile of initializeAuth resolves, then the finally block
InitFetchDone ==
  /\ \E t \in tasks, ok \in BOOLEAN :
       /\ t.k = "initFetch"
       /\ tasks' = tasks \ {t}
       /\ IF IsMounted(t.gen)
          THEN /\ profile' = IF ok THEN t.uid ELSE "none"
               /\ initialized' = TRUE
               /\ loading' = FALSE
          ELSE UNCHANGED <<profile, initialized, loading>>
  /\ UNCHANGED <<authUser, user, session, effect, authEvents>>
  /\ AuthFrame

\* initialized changed since the effect ran: cleanup, then the effect again
RerunEffect ==
  /\ effect.live
  /\ effect.initialized # initialized
  /\ RunEffect(effect.gen + 1)
  /\ UNCHANGED <<authUser, user, session, profile, loading, initialized,
                 authEvents>>
  /\ AuthFrame

\* the component unmounts: cleanup only
Unmount ==
  /\ effect.live
  /\ effect' = [effect EXCEPT !.live = FALSE]
  /\ UNCHANGED <<authUser, user, session, profile, loading, initialized,
                 tasks, authEvents>>
  /\ AuthFrame

\* signOut is called and awaits getSession
SignOut ==
  /\ effect.live
  /\ authEvents < MaxAuthEvents
  /\ authEvents' = authEvents + 1
  /\ tasks' = tasks \cup {[k |-> "signOut", gen |-> effect.gen, uid |-> "none",
                           id |-> authEvents + 1]}
  /\ UNCHANGED <<authUser, user, session, profile, loading, initialized, effect>>
  /\ AuthFrame

\* getSession of signOut resolves; with a session, auth.signOut ends it and
\* the client tells the listener
SignOutGotSession ==
  /\ \E t \in tasks :
       /\ t.k = "signOut"
       /\ LET pending == (tasks \ {t}) \cup {[t EXCEPT !.k = "signOutLocal"]} IN
          IF authUser # "none" /\ effect.live
          THEN /\ authUser' = "none"
               /\ Listener("none", pending)
          ELSE /\ authUser' = "none"
               /\ tasks' = pending
               /\ UNCHANGED <<session, user, profile, loading>>
  /\ UNCHANGED <<initialized, effect, authEvents>>
  /\ AuthFrame

\* the end of signOut: setUser(null), setSession(null), setProfile(null)
SignOutLocal ==
  /\ \E t \in tasks :
       /\ t.k = "signOutLocal"
       /\ tasks' = tasks \ {t}
  /\ user' = "none"
  /\ session' = "none"
  /\ profile' = "none"
  /\ UNCHANGED <<authUser, loading, initialized, effect, authEvents>>
  /\ AuthFrame

NextAuth ==
  \/ AuthStateChange
  \/ TimerFire
  \/ FetchDone
  \/ InitGotSession
  \/ InitFetchDone
  \/ RerunEffect
  \/ Unmount
  \/ SignOut
  \/ SignOutGotSession
  \/ SignOutLocal

SpecAuth == InitAuth /\ [][NextAuth]_vars

----------------------------------------------------------------------------
(* Loading the default models: loadDefaultModels and loadModelsFromBuffers,
   each await being a step of its own *)

\* the calls of loadDefaultModels of one behaviour
MaxCalls == 3

\* positions of a call between isLoadingDefaults = true and its reset
Section == {"fetching", "buffers", "creatingHiding", "creatingReveal", "finishing"}

areModelsLoaded == hidingSession # "null" /\ revealSession # "null"

InFlight == {c \in 1..Len(calls) : calls[c].pc \in Section}

\* loadDefaultModels whose "not found" exit leaves the flag set
AfterExit_MissingKeepsFlag(path) ==
  [isLoadingDefaults |-> path = "missing", defaultModelsChecked |-> TRUE]

\* the module flags on the exits of the try block: models missing in
\* storage, a thrown error, and the return of loadModelsFromBuffers
AfterExit(path) ==
  [isLoadingDefaults |-> FALSE, defaultModelsChecked |-> TRUE]

InitModels ==
  /\ ServerIdle
  /\ WaveletIdle
  /\ FnIdle
  /\ authUser = "none"
  /\ user = "none"
  /\ session = "none"
  /\ profile = "none"
  /\ loading = TRUE
  /\ initialized = FALSE
  /\ effect = [gen |-> 0, live |-> FALSE, initialized |-> FALSE]
  /\ tasks = {}
  /\ authEvents = 0
  /\ hidingSession = "null"
  /\ revealSession = "null"
  /\ isLoadingDefaults = FALSE
  /\ defaultModelsChecked = FALSE
  /\ calls = <<>>

ModelsFrame ==
  /\ UNCHANGED serverVars
  /\ UNCHANGED waveletVars
  /\ UNCHANGED fnVars
  /\ UNCHANGED authVars

\* loadDefaultModels up to its first await or early return
StartLoad ==
  LET call == [pc |-> "returned", result |-> "", fetched |-> FALSE,
               inFlightAtCall |-> InFlight # {},
               loadedAtCall |-> areModelsLoaded]
  IN IF isLoadingDefaults
     THEN /\ calls' = Append(calls, [call EXCEPT !.result = "Already loading models"])
          /\ UNCHANGED isLoadingDefaults
     ELSE IF areModelsLoaded
     THEN /\ calls' = Append(calls, [call EXCEPT !.result = "success"])
          /\ UNCHANGED isLoadingDefaults
     ELSE /\ isLoadingDefaults' = TRUE
          /\ calls' = Append(calls, [call EXCEPT !.pc = "fetching", !.fetched = TRUE])

\* a caller other than the uploader's mount effect
CallLoadDefaultModels ==
  /\ Len(calls) < MaxCalls
  /\ StartLoad
  /\ UNCHANGED <<hidingSession, revealSession, defaultModelsChecked>>
  /\ ModelsFrame

\* checkDefaultModels of a mounting ModelUploader, past its early returns
CheckDefaultModels ==
  /\ Len(calls) < MaxCalls
  /\ ~areModelsLoaded
  /\ ~defaultModelsChecked
  /\ ~isLoadingDefaults
  /\ StartLoad
  /\ UNCHANGED <<hidingSession, revealSession, defaultModelsChecked>>
  /\ ModelsFrame

Exit(c, path, result) ==
  /\ calls' = [calls EXCEPT ![c].pc = "returned", ![c].result = result]
  /\ isLoadingDefaults' = AfterExit(path).isLoadingDefaults
  /\ defaultModelsChecked' = AfterExit(path).defaultModelsChecked

\* both fetches settle: both ok, one not ok, or one rejected
FetchSettled ==
  /\ \E c \in 1..Len(calls), outcome \in {"ok", "missing", "rejected"} :
       /\ calls[c].pc = "fetching"
       /\ IF outcome = "ok"
          THEN /\ calls' = [calls EXCEPT ![c].pc = "buffers"]
               /\ UNCHANGED <<isLoadingDefaults, defaultModelsChecked>>
          ELSE IF outcome = "missing"
          THEN Exit(c, "missing", "Default models not found in storage")
          ELSE Exit(c, "thrown", "error")
  /\ UNCHANGED <<hidingSession, revealSession>>
  /\ ModelsFrame

\* both arrayBuffer() calls settle
BuffersSettled ==
  /\ \E c \in 1..Len(calls), rejected \in BOOLEAN :
       /\ calls[c].pc = "buffers"
       /\ IF rejected THEN Exit(c, "thrown", "error")
          ELSE /\ calls' = [calls EXCEPT ![c].pc = "creatingHiding"]
               /\ UNCHANGED <<isLoadingDefaults, defaultModelsChecked>>
  /\ UNCHANGED <<hidingSession, revealSession>>
  /\ ModelsFrame

\* loadModelsFromBuffers: InferenceSession.create of the hiding model settles
HidingCreated ==
  /\ \E c \in 1..Len(calls), ok \in BOOLEAN :
       /\ calls[c].pc = "creatingHiding"
       /\ IF ok
          THEN /\ hidingSession' = "session"
               /\ calls' = [calls EXCEPT ![c].pc = "creatingReveal"]
          ELSE /\ UNCHANGED hidingSession
               /\ calls' = [calls EXCEPT ![c].pc = "finishing",
                                         ![c].result = "failure"]
  /\ UNCHANGED <<revealSession, isLoadingDefaults, defaultModelsChecked>>
  /\ ModelsFrame

\* loadModelsFromBuffers: InferenceSession.create of the reveal model settles
RevealCreated ==
  /\ \E c \in 1..Len(calls), ok \in BOOLEAN :
       /\ calls[c].pc = "creatingReveal"
       /\ IF ok
          THEN /\ revealSession' = "session"
               /\ calls' = [calls EXCEPT ![c].pc = "finishing",
                                         ![c].result = "success"]
          ELSE /\ UNCHANGED revealSession
               /\ calls' = [calls EXCEPT ![c].pc = "finishing",
                                         ![c].result = "failure"]
  /\ UNCHANGED <<hidingSession, isLoadingDefaults, defaultModelsChecked>>
  /\ ModelsFrame

\* loadDefaultModels resumes with the result of loadModelsFromBuffers
LoadReturned ==
  /\ \E c \in 1..Len(calls) :
       /\ calls[c].pc = "finishing"
       /\ Exit(c, "loaded", calls[c].result)
  /\ UNCHANGED <<hidingSession, revealSession>>
  /\ ModelsFrame

NextModels ==
  \/ CallLoadDefaultModels
  \/ CheckDefaultModels
  \/ FetchSettled
  \/ BuffersSettled
  \/ HidingCreated
  \/ RevealCreated
  \/ LoadReturned

SpecModels == InitModels /\ [][NextModels]_vars

----------------------------------------------------------------------------
(* Properties of the edge functions *)

RoundTripCase(how) ==
  /\ pc = "decoded"
  /\ hist = <<how>>
  /\ dkey = key
  /\ message # <<>>
  /\ AllAscii(message)
  /\ AllAscii(key)

\* the carrier has no bitmap signature, so the bitmap parser returns null
ForeignCarrier == parseBMP_decode(Expand(carrier)).tag = "null"

\* i is the last offset at which marker occurs in d
IsLast(d, marker, i) ==
  /\ i >= 0
  /\ i + Len(marker) <= Len(d)
  /\ MatchAt(d, marker, i)
  /\ \A j \in (i + 1)..(Len(d) - Len(marker)) : ~MatchAt(d, marker, j)

Absent(d, marker) == \A j \in 0..(Len(d) - Len(marker)) : ~MatchAt(d, marker, j)

\* the LSB candidate's own result on the file: a non-empty decoded string
LsbPayload(d) ==
  LET bmp == parseBMP_decode(d) IN
  IF bmp.tag # "ok" THEN <<>>
  ELSE LET lsb == decodeLSB(bmp.pixels) IN
       IF lsb.tag = "ok" THEN lsb.str ELSE <<>>

\* C1: decoding, with the same key, the bitmap the encoder wrote for an
\* accepted ASCII message returns that message with method tag "LSB".
C1_LsbRoundTrip ==
  RoundTripCase("LSB") => resp = Decoded(message, "LSB")

\* C2: for an image with even width and height and a text with character
\* codes in [0,255] and 1 <= len(text) <= floor(W/2)*floor(H/2), extracting
\* from the image embedText returned gives back the text.
C2_WaveletRoundTrip ==
  ( /\ wpc = "extracted"
    /\ image.width % 2 = 0
    /\ image.height % 2 = 0
    /\ Len(secretMessage) >= 1
    /\ Len(secretMessage) <= (image.width \div 2) * (image.height \div 2)
    /\ \A i \in 1..Len(secretMessage) : secretMessage[i] \in 0..255 )
    => wres = [tag |-> "ok", str |-> secretMessage]

\* C3: decoding, with the same key, a non-bitmap carrier followed by the
\* legacy frame of an ASCII message returns that message with method tag
\* "Append-Old".
C3_LegacyRoundTrip ==
  (RoundTripCase("Append-Old") /\ ForeignCarrier)
    => resp = Decoded(message, "Append-Old")

\* C4: decoding, with the same key, a non-bitmap carrier followed by the
\* New-Append frame of an ASCII message returns that message with method
\* tag "Append-New".
C4_NewAppendRoundTrip ==
  (RoundTripCase("Append-New") /\ ForeignCarrier)
    => resp = Decoded(message, "Append-New")

\* C5: whenever the LSB candidate yields a message the response is that
\* message XOR-ed with the caller's key and tagged "LSB", whatever frames
\* are appended to the file; a later candidate's result is returned only
\* when every earlier candidate produced nothing.
C5_DispatcherPrecedence ==
  pc = "decoded" =>
    LET d   == Expand(file)
        lsb == LsbPayload(d)
    IN /\ lsb # <<>> => resp = Decoded(decryptMessage(lsb, dkey), "LSB")
       /\ resp.method = "Append-New" => lsb = <<>>
       /\ resp.method = "Append-Old" =>
            lsb = <<>> /\ Method2(d, dkey).str = <<>>

\* C5 witness: a bitmap that holds an LSB message and an appended legacy
\* frame was decoded as "LSB".
C5_Witness ==
  /\ pc = "decoded"
  /\ hist = <<"LSB", "Append-Old">>
  /\ Method3(Expand(file), dkey).hit
  /\ resp.method = "LSB"

\* C6: a bitmap carrier that never went through an encoder and holds no
\* marker decodes to NotFound, whatever its pixel values are.
C6_NoGuessedResult ==
  ( /\ pc = "decoded"
    /\ hist = <<>>
    /\ parseBMP_decode(Expand(file)).tag = "ok"
    /\ Absent(Expand(file), STEGO) )
    => resp = Failure(400)

\* C7: no input ends the decode request with an unhandled exception: the
\* response is the first candidate's message or NotFound.
C7_FailuresAreLocal ==
  pc = "decoded" => resp.status \in {200, 400}

\* the last "STEGO" marker of d is followed by fewer than 4 bytes or by a
\* length field larger than the number of bytes after it
MalformedLegacy(d) ==
  \E i \in 0..(Len(d) - Len(STEGO)) :
    /\ IsLast(d, STEGO, i)
    /\ \/ i + Len(STEGO) + 4 > Len(d)
       \/ getUint32BE(d, i + Len(STEGO)) > Len(d) - (i + Len(STEGO) + 4)

\* C8: on a buffer whose legacy frame is malformed the standalone legacy
\* decoder reports failure and the dispatcher returns no legacy message;
\* neither ends with an unhandled error.
C8_MalformedLengthRejected ==
  MalformedLegacy(Expand(file)) =>
    /\ pc = "decodedLegacy" => resp = Failure(400)
    /\ pc = "decoded" => resp.method # "Append-Old" /\ resp.status # 500

\* the legacy frame at the last "STEGO" marker of d has a length field L
\* with 0 < L <= 100000 and L <= bytes remaining
LegacyFrameInRange(d) ==
  \E i \in 0..(Len(d) - Len(STEGO) - 4) :
    /\ IsLast(d, STEGO, i)
    /\ getUint32BE(d, i + Len(STEGO)) > 0
    /\ getUint32BE(d, i + Len(STEGO)) <= OLD_LIMIT
    /\ getUint32BE(d, i + Len(STEGO)) <= Len(d) - (i + Len(STEGO) + 4)

\* the text of the legacy frame at the last "STEGO" marker of d
LegacyFrameText(d) ==
  LET i == CHOOSE j \in 0..(Len(d) - Len(STEGO) - 4) : IsLast(d, STEGO, j)
      L == getUint32BE(d, i + Len(STEGO))
  IN TextDecode(SubSeq(d, i + Len(STEGO) + 5, i + Len(STEGO) + 4 + L))

\* C9: when the earlier candidates produce nothing, the dispatcher returns
\* the legacy frame's message exactly when its length field L satisfies
\* 0 < L <= 100000 and L <= bytes remaining.
C9_LegacyLengthRange ==
  ( /\ pc = "decoded"
    /\ resp.status # 500
    /\ LsbPayload(Expand(file)) = <<>>
    /\ Method2(Expand(file), dkey).str = <<>> )
    => ( resp.method = "Append-Old"
           <=> ( /\ LegacyFrameInRange(Expand(file))
                 /\ LegacyFrameText(Expand(file)) # <<>> ) )

\* C10: the dispatcher returns a New-Append message only if both markers
\* are found, the end marker lies after the start marker and at or after
\* start + 19 + len; the message is then the len bytes from start + 19.
C10_NewAppendValidation ==
  (pc = "decoded" /\ resp.method = "Append-New") =>
    LET d == Expand(file) IN
    \E s \in 0..Len(d), e \in 0..Len(d) :
      /\ IsLast(d, STEGO_START, s)
      /\ IsLast(d, STEGO_END, e)
      /\ e > s
      /\ e >= s + 19 + getUint32BE(d, s + 15)
      /\ resp.message =
           decryptMessage(
             TextDecode(SubSeq(d, s + 20, s + 19 + getUint32BE(d, s + 15))),
             dkey)

\* C10 witness: a New-Append message was returned from a frame whose end
\* marker lies beyond the declared payload.
C10_Witness ==
  /\ pc = "decoded"
  /\ resp.method = "Append-New"
  /\ \E s \in 0..Len(Expand(file)), e \in 0..Len(Expand(file)) :
       /\ IsLast(Expand(file), STEGO_START, s)
       /\ IsLast(Expand(file), STEGO_END, e)
       /\ e > s + 19 + getUint32BE(Expand(file), s + 15)

----------------------------------------------------------------------------
(* Properties of the codec functions *)

Returned(fn) == fpc = "returned" /\ arg.fn = fn

\* the byte packed MSB-first from LSBs 8j .. 8j+7 of a plane (j from 0)
PackedByte(pixels, j) ==
  128 * (pixels[8 * j + 1] % 2) + 64 * (pixels[8 * j + 2] % 2)
  + 32 * (pixels[8 * j + 3] % 2) + 16 * (pixels[8 * j + 4] % 2)
  + 8 * (pixels[8 * j + 5] % 2) + 4 * (pixels[8 * j + 6] % 2)
  + 2 * (pixels[8 * j + 7] % 2) + (pixels[8 * j + 8] % 2)

\* the bytes encodeLSB has to embed for the call in arg
LsbPayloadBytes == TextEncode(arg.message)

\* C11: encodeLSB succeeds exactly when 8*(4 + len(payload) + 7) is at
\* most len(plane); on success the plane's LSBs hold the length prefix, the
\* whole payload and the "<<END>>" sentinel, and on failure it throws and
\* returns no plane.
C11_LsbCapacityBoundary ==
  Returned("encodeLSB") =>
    LET n == Len(LsbPayloadBytes) IN
    /\ ret.tag = "ok" <=> 8 * (4 + n + 7) <= Len(arg.pixelData)
    /\ ret.tag # "ok" => ret = Throw
    /\ ret.tag = "ok" =>
         /\ PackedByte(ret.pixels, 0) * 16777216
              + PackedByte(ret.pixels, 1) * 65536
              + PackedByte(ret.pixels, 2) * 256
              + PackedByte(ret.pixels, 3) = n
         /\ \A j \in 1..n : PackedByte(ret.pixels, 3 + j) = LsbPayloadBytes[j]
         /\ \A j \in 1..7 : PackedByte(ret.pixels, 3 + n + j) = END_MARKER[j]

\* C11 witness: a frame of exactly len(plane) bits was embedded.
C11_Witness ==
  /\ Returned("encodeLSB")
  /\ Len(LsbPayloadBytes) > 0
  /\ 8 * (4 + Len(LsbPayloadBytes) + 7) = Len(arg.pixelData)
  /\ ret.tag = "ok"

\* C12: embedText throws the capacity error exactly when len(text) exceeds
\* len(cV) + len(cD) = 2*floor(W/2)*floor(H/2); when it succeeds, value i of
\* the transformed text is stored at index i of cV for i < floor(n/2) and at
\* index i - floor(n/2) of cD otherwise, always inside the subband.
C12_WaveletCapacityBoundary ==
  Returned("embedText") =>
    LET img == arg.imageData
        n   == Len(arg.secretText)
        cap == 2 * (img.width \div 2) * (img.height \div 2)
        w   == dwt2(GreenChannel(img), img.width, img.height)
        enc == processEncryption(arg.secretText)
        sub == EmbeddedSubbands(w, enc)
        mid == n \div 2
    IN /\ Len(w.cV) + Len(w.cD) = cap
       /\ ret = Throw <=> n > cap
       /\ ret # Throw =>
            /\ ret.tag = "ok"
            /\ \A i \in 0..(n - 1) :
                 IF i < mid
                 THEN i < Len(sub.cV)
                      /\ At(sub.cV, i) = enc.normMsg[i + 1] * Unit
                 ELSE i - mid < Len(sub.cD)
                      /\ At(sub.cD, i - mid) = enc.normMsg[i + 1] * Unit

\* C12 witness: a text of exactly the capacity was embedded.
C12_Witness ==
  /\ Returned("embedText")
  /\ Len(arg.secretText) > 0
  /\ Len(arg.secretText)
       = 2 * (arg.imageData.width \div 2) * (arg.imageData.height \div 2)
  /\ ret.tag = "ok"

C14_CipherSelfInverse ==
  Returned("cipher") =>
    /\ ret.decrypted = arg.x
    /\ Len(ret.encrypted) = Len(arg.x)
    /\ arg.k = <<>> => ret.encrypted = arg.x

\* C14 witness: a key shorter than the text changed the text, also past
\* the key's length.
C14_Witness ==
  /\ Returned("cipher")
  /\ arg.k # <<>>
  /\ Len(arg.k) < Len(arg.x)
  /\ ret.encrypted[Len(arg.x)] # arg.x[Len(arg.x)]
  /\ ret.decrypted = arg.x

\* C15: whenever the legacy encoder stores a file for an ASCII message m
\* and an ASCII key k, the file is the carrier unchanged, then "STEGO", then
\* the payload length as 4 big-endian bytes, then the payload with
\* payload[i] = m[i] XOR k[i mod len(k)] (m itself for the empty key); for
\* "HELLO" the appended bytes are "STEGO" 00 00 00 05 "HELLO" with the empty
\* key and "STEGO" 00 00 00 05 03 0E 07 07 04 with the key "K".
C15_LegacyByteFormat ==
  (Returned("legacyEncode") /\ ret.resp.success
     /\ AllAscii(arg.m) /\ AllAscii(arg.k)) =>
    LET c   == arg.uint8Array
        out == ret.out.bytes
        n   == Len(arg.m)
    IN /\ Len(out) = Len(c) + 9 + n
       /\ SubSeq(out, 1, Len(c)) = c
       /\ SubSeq(out, Len(c) + 1, Len(c) + 5) = <<83, 84, 69, 71, 79>>
       /\ out[Len(c) + 6] * 16777216 + out[Len(c) + 7] * 65536
            + out[Len(c) + 8] * 256 + out[Len(c) + 9] = n
       /\ \A i \in 1..n :
            out[Len(c) + 9 + i] =
              IF arg.k = <<>> THEN arg.m[i]
              ELSE Xor(arg.m[i], arg.k[((i - 1) % Len(arg.k)) + 1])
       /\ (arg.m = TextHello /\ arg.k = <<>>) =>
            SubSeq(out, Len(c) + 1, Len(out))
              = <<83, 84, 69, 71, 79, 0, 0, 0, 5, 72, 69, 76, 76, 79>>
       /\ (arg.m = TextHello /\ arg.k = KeyK) =>
            SubSeq(out, Len(c) + 1, Len(out))
              = <<83, 84, 69, 71, 79, 0, 0, 0, 5, 3, 14, 7, 7, 4>>

\* C15 witness: "HELLO" was stored with the key "K" behind a carrier.
C15_Witness ==
  /\ Returned("legacyEncode")
  /\ ret.resp.success
  /\ arg.m = TextHello
  /\ arg.k = KeyK
  /\ arg.uint8Array # <<>>

\* C16: for width >= 1, height >= 1 and an RGB plane of width*height*3
\* bytes, each parseBMP applied to createBMP(width, height, rgb) returns the
\* same width and height and the identical plane, whatever row padding the
\* width needs.
C16_BmpRoundTrip ==
  Returned("bmpRoundTrip") =>
    LET parsed == [tag |-> "ok", width |-> arg.width, height |-> arg.height,
                   pixels |-> arg.rgbData]
    IN ret.decoder = parsed /\ ret.encoder = parsed

\* C16 witness: a file of several rows of 3 padding bytes was parsed back.
C16_Witness ==
  /\ Returned("bmpRoundTrip")
  /\ arg.width = 3
  /\ arg.height > 1
  /\ arg.rgbData[1] # arg.rgbData[2]
  /\ Len(ret.bmp) = 54 + 12 * arg.height
  /\ ret.decoder.tag = "ok"

\* the file starts with 'B','M'
HasSignature(d) == Len(d) >= 2 /\ d[1] = 66 /\ d[2] = 77

\* the 16-bit depth at offset 28 is 24 or 32
HasSupportedDepth(d) == Len(d) >= 30 /\ d[29] + 256 * d[30] \in {24, 32}

\* width * |height| * 3 of the header's signed 32-bit fields
PlaneLength(d) == getInt32LE(d, 18) * Abs(getInt32LE(d, 22)) * 3

\* C17: parseBMP fails with InvalidSignature exactly when the file does not
\* start with 'B','M', with UnsupportedFormat exactly when it does and the
\* depth at offset 28 is neither 24 nor 32, and otherwise returns a plane of
\* width*height*3 bytes; the decoder's failures are the value null, the
\* encoder's are errors.
C17_ParseRejection ==
  Returned("parseBMP") =>
    LET d == arg.data IN
    /\ ~HasSignature(d) => ret.decoder = Null /\ ret.encoder = Throw
    /\ (HasSignature(d) /\ ~HasSupportedDepth(d)) =>
         ret.decoder = Null /\ ret.encoder = Throw
    /\ (HasSignature(d) /\ HasSupportedDepth(d)) =>
         /\ ret.decoder.tag = "ok"
         /\ Len(ret.decoder.pixels) = PlaneLength(d)
         /\ ret.encoder.tag = "ok"
         /\ Len(ret.encoder.pixels) = PlaneLength(d)

\* LSB i (from 0) of a plane; a missing byte counts as 0
LsbAt(p, i) == IF i < Len(p) THEN p[i + 1] % 2 ELSE 0

\* the unsigned big-endian value of LSBs from .. to of a plane
RECURSIVE LsbValue(_, _, _)
LsbValue(p, from, to) ==
  IF to < from THEN 0 ELSE 2 * LsbValue(p, from, to - 1) + LsbAt(p, to)

\* U, the value of the first 32 LSBs, is 0, above 100000, or needs more
\* than the B = min(len(plane), 100000) bits decodeLSB reads
LsbLengthInvalid(p) ==
  LET B == IF Len(p) < 100000 THEN Len(p) ELSE 100000 IN
  \/ LsbAt(p, 0) = 1
  \/ LsbValue(p, 1, 31) = 0
  \/ LsbValue(p, 1, 31) > 100000
  \/ 32 + 8 * LsbValue(p, 1, 31) > B

\* C18: decodeLSB returns null if U = 0, U > 100000 or 32 + 8*U > B, and
\* otherwise exactly U bytes, byte i being LSBs 32+8i .. 32+8i+7 packed
\* MSB-first.
C18_DecodeLsbOutcome ==
  Returned("decodeLSB") =>
    LET p == Expand(arg.plane) IN
    IF LsbLengthInvalid(p) THEN ret = Null
    ELSE /\ ret.tag = "ok"
         /\ ret.str = [i \in 1..LsbValue(p, 1, 31) |-> PackedByte(p, 3 + i)]

\* planes a and b agree on the first 32 + 8*length LSBs, length being the
\* valid length a's first 32 LSBs spell
AgreeOnMessageBits(a, b) ==
  /\ ~LsbLengthInvalid(a)
  /\ Len(b) >= 32 + 8 * LsbValue(a, 1, 31)
  /\ \A i \in 0..(32 + 8 * LsbValue(a, 1, 31) - 1) : LsbAt(a, i) = LsbAt(b, i)

\* C19: decodeLSB returns the same value for two planes that agree on the
\* first 32 + 8*length LSBs, whatever the LSBs after the message are
\* ("<<END>>", something else, or none).
C19_SentinelLeniency ==
  (Returned("decodeLSBPair") /\ AgreeOnMessageBits(arg.a, arg.b)) =>
    ret.a = ret.b /\ ret.a.tag = "ok"

\* C19 witness: a plane ending right after its message decoded like the
\* plane that carries the same message followed by "<<END>>".
C19_Witness ==
  /\ Returned("decodeLSBPair")
  /\ AgreeOnMessageBits(arg.a, arg.b)
  /\ Len(arg.a) >= 32 + 8 * LsbValue(arg.a, 1, 31) + 56
  /\ \A j \in 1..7 :
       PackedByte(arg.a, 3 + LsbValue(arg.a, 1, 31) + j) = END_MARKER[j]
  /\ Len(arg.b) = 32 + 8 * LsbValue(arg.a, 1, 31)
  /\ ret.b.tag = "ok"

\* C20: on success encodeLSB returns a plane of the input's length with
\* out[i] = (in[i] AND 0xFE) OR bits[i] for i < len(bits) and out[i] = in[i]
\* from len(bits) on, bits being the frame's bits MSB-first; so bits 1..7 of
\* every byte are kept and no byte moves by more than 1.
C20_EncodeLsbFrame ==
  (Returned("encodeLSB") /\ ret.tag = "ok") =>
    LET in    == arg.pixelData
        out   == ret.pixels
        n     == Len(LsbPayloadBytes)
        frame == <<0, 0, n \div 256, n % 256>> \o LsbPayloadBytes \o END_MARKER
    IN /\ Len(out) = Len(in)
       /\ \A i \in 1..Len(in) :
            /\ out[i] \div 2 = in[i] \div 2
            /\ out[i] - in[i] \in {-1, 0, 1}
            /\ IF i <= 8 * Len(frame)
               THEN out[i] % 2
                      = (frame[((i - 1) \div 8) + 1]
                           \div BitWeight[((i - 1) % 8) + 1]) % 2
               ELSE out[i] = in[i]

\* C20 witness: a byte with bits 1..7 set had its LSB changed, and bytes
\* past the frame exist.
C20_Witness ==
  /\ Returned("encodeLSB")
  /\ ret.tag = "ok"
  /\ Len(arg.pixelData) > 8 * (4 + Len(LsbPayloadBytes) + 7)
  /\ \E i \in 1..Len(arg.pixelData) :
       arg.pixelData[i] >= 2 /\ ret.pixels[i] # arg.pixelData[i]

----------------------------------------------------------------------------
(* Properties of the wavelet codec and of the standalone legacy decoder *)

\* C21: in each revision, for a channel of even width and height,
\* idwt2(dwt2(channel)) is the channel exactly, and dwt2(idwt2(cA, cH, cV, cD))
\* is the same four subbands
C21_HaarInverse ==
  Returned("haar") =>
    /\ ret.channel = arg.image.channel
    /\ ret.back = arg.sub

\* a channel whose two detail subbands differ has been transformed and
\* restored by each revision
C21_Witness ==
  /\ Returned("haar")
  /\ arg.rev = "first"
  /\ ret.subbands.cH # ret.subbands.cV
  /\ \E k \in 1..Len(ret.subbands.cD) : ret.subbands.cD[k] # 0
  /\ arg.sub.cH # arg.sub.cV

\* C22: for a non-empty text of character codes in 0..255, processEncryption
\* returns n = len(text), M = the largest code and values[i] = (255 - c_i) + M;
\* every value lies in 255..255 + M, and the decode step of extractText maps
\* values[i] back to c_i
C22_ProcessEncryptionResult ==
  ( /\ Returned("processEncryption")
    /\ arg.text # <<>>
    /\ \A i \in 1..Len(arg.text) : arg.text[i] \in 0..255 ) =>
    /\ ret.n = Len(arg.text)
    /\ \A i \in 1..Len(arg.text) : ret.M >= arg.text[i]
    /\ \E i \in 1..Len(arg.text) : ret.M = arg.text[i]
    /\ Len(ret.normMsg) = Len(arg.text)
    /\ \A i \in 1..Len(arg.text) :
         /\ ret.normMsg[i] = (255 - arg.text[i]) + ret.M
         /\ ret.normMsg[i] \in 255..(255 + ret.M)
    /\ ret.extractedText = arg.text

\* a text of two different codes, one of them above 127, has been processed
C22_Witness ==
  /\ Returned("processEncryption")
  /\ Len(arg.text) = 2
  /\ arg.text[1] > 127
  /\ arg.text[1] <= 255
  /\ arg.text[2] < arg.text[1]
  /\ ret.normMsg[2] > 255

\* the subbands embedText hands to idwt2 in the returned call
SubbandsWritten ==
  LET img == arg.imageData IN
  EmbeddedSubbands(dwt2(GreenChannel(img), img.width, img.height),
                   processEncryption(arg.secretText))

\* the transformed values of the text of the returned call, in units
ValuesWritten ==
  LET enc == processEncryption(arg.secretText) IN
  [i \in 1..enc.n |-> enc.normMsg[i] * Unit]

\* the first split values are cV[0..], the others cD[0..], and nothing else
\* of cV and cD is changed
SplitAt(split) ==
  LET img == arg.imageData
      w   == dwt2(GreenChannel(img), img.width, img.height)
      n   == Len(ValuesWritten)
  IN /\ \A i \in 0..(Len(w.cV) - 1) :
          At(SubbandsWritten.cV, i)
            = IF i < split THEN ValuesWritten[i + 1] ELSE At(w.cV, i)
     /\ \A i \in 0..(Len(w.cD) - 1) :
          At(SubbandsWritten.cD, i)
            = IF i < n - split THEN ValuesWritten[split + i + 1] ELSE At(w.cD, i)

\* C23 as stated: embedText writes the first ceil(n/2) transformed values into
\* cV from index 0 and the remaining values into cD from index 0
C23_EmbedSplitPoint ==
  (Returned("embedText") /\ ret # Throw) =>
    SplitAt((Len(arg.secretText) + 1) \div 2)

\* C23 amended: embedText writes the first floor(n/2) transformed values into
\* cV from index 0 and the remaining ceil(n/2) values into cD from index 0
C23_EmbedSplitPointFloor ==
  (Returned("embedText") /\ ret # Throw) =>
    SplitAt(Len(arg.secretText) \div 2)

\* a text of odd length, at least 3, was embedded: its middle value went to
\* cD[0] and cV kept its own coefficient at index floor(n/2)
C23_Witness ==
  /\ Returned("embedText")
  /\ ret # Throw
  /\ Len(arg.secretText) % 2 = 1
  /\ Len(arg.secretText) >= 3
  /\ At(SubbandsWritten.cD, 0) = ValuesWritten[(Len(arg.secretText) \div 2) + 1]
  /\ At(SubbandsWritten.cV, Len(arg.secretText) \div 2)
       # ValuesWritten[(Len(arg.secretText) \div 2) + 1]

\* the subbands extractText computes in the returned call
SubbandsRead ==
  dwt2(GreenChannel(arg.imageData), arg.imageData.width, arg.imageData.height)

\* the length extractText reads from cH[0]; 0 when the slot is missing
LengthRead ==
  IF Len(SubbandsRead.cH) = 0 THEN 0 ELSE MathRound(At(SubbandsRead.cH, 0))

\* C24: whenever extractText returns a text, the length n read from cH[0] is
\* at most len(cV) + len(cD) and cH[0] and cH[1] exist; an image with n above
\* the capacity or with fewer than 2 coefficients per subband makes it fail
C24_ExtractionRespectsCapacity ==
  Returned("extractText") =>
    /\ ret # Throw =>
         /\ Len(SubbandsRead.cH) >= 2
         /\ LengthRead <= Len(SubbandsRead.cV) + Len(SubbandsRead.cD)
    /\ ( \/ Len(SubbandsRead.cH) < 2
         \/ LengthRead > Len(SubbandsRead.cV) + Len(SubbandsRead.cD) )
         => ret = Throw

\* C25: the image embedText returns has the carrier's width, height and data
\* length; the red, blue and alpha bytes of every pixel are the carrier's,
\* and every green byte is an integer in [0,255]
C25_EmbedChannelFrame ==
  (Returned("embedText") /\ ret # Throw) =>
    LET in  == arg.imageData
        out == ret.image
    IN /\ out.width = in.width
       /\ out.height = in.height
       /\ Len(out.data) = Len(in.data)
       /\ \A j \in 1..Len(in.data) :
            IF (j - 1) % 4 = 1 THEN out.data[j] \in 0..255
            ELSE out.data[j] = in.data[j]

\* a text was embedded, green bytes changed, and some reconstructed green
\* value was clamped at each end of the range
C25_Witness ==
  /\ Returned("embedText")
  /\ ret # Throw
  /\ arg.secretText # <<>>
  /\ \E j \in 1..Len(arg.imageData.data) :
       (j - 1) % 4 = 1 /\ ret.image.data[j] # arg.imageData.data[j]
  /\ \E j \in 1..Len(arg.imageData.data) :
       (j - 1) % 4 = 1 /\ ret.image.data[j] = 255 /\ arg.imageData.data[j] < 255
  /\ \E j \in 1..Len(arg.imageData.data) :
       (j - 1) % 4 = 1 /\ ret.image.data[j] = 0 /\ arg.imageData.data[j] > 0

\* C26: for every carrier and every payload of at least one byte, the
\* standalone legacy decoder with the empty key, applied to
\* carrier ++ "STEGO" ++ u32_be(len) ++ payload, finds the appended marker
\* and returns the payload
C26_LegacyMarkerScan ==
  (Returned("legacyDecode") /\ Len(arg.payload) >= 1) =>
    ret = Decoded(arg.payload, "")

\* C27: when the carrier's width or height is odd, embedText changes green
\* values only at pixels covered by a 2x2 block; the green values of the
\* unpaired last column and row of the returned image are the carrier's
C27_OddDimensions ==
  ( /\ Returned("embedText")
    /\ ret # Throw
    /\ (arg.imageData.width % 2 = 1 \/ arg.imageData.height % 2 = 1) ) =>
    LET width  == arg.imageData.width
        height == arg.imageData.height
    IN \A i \in 0..(width * height - 1) :
         ( \/ i % width >= 2 * (width \div 2)
           \/ i \div width >= 2 * (height \div 2) )
           => ret.image.data[i * 4 + 2] = arg.imageData.data[i * 4 + 2]

----------------------------------------------------------------------------
(* Properties of the client hooks *)

\* C28: for every order of auth-state events and profile-fetch completions,
\* once no fetch is pending the profile is non-null only if the user is
\* non-null and profile.user_id is user.id: a fetch for a user who has since
\* signed out or been replaced leaves no profile in the state
C28_ProfileConsistency ==
  (effect.live /\ effect.initialized = initialized /\ tasks = {}) =>
    (profile # "none" => (user # "none" /\ profile = user))

C30_ClientLsbRoundTrip ==
  (fpc = "returned" /\ arg.fn = "clientLsb"
     /\ Len(arg.message) <= getMaxCapacity(arg.size[1], arg.size[2])) =>
    /\ ret.message = arg.message
    /\ Len(ret.stegoPixels) = Len(ret.coverPixels)
    /\ \A j \in 1..Len(ret.coverPixels) :
         j % 4 = 0 => ret.stegoPixels[j] = ret.coverPixels[j]

\* a message of exactly getMaxCapacity characters came back under a key
\* whose key bits changed the embedded bits
C30_Witness ==
  /\ fpc = "returned"
  /\ arg.fn = "clientLsb"
  /\ arg.key # <<>>
  /\ Len(arg.message) = 2
  /\ getMaxCapacity(arg.size[1], arg.size[2]) = 2
  /\ ret.message = arg.message
  /\ ret.stegoPixels # ret.coverPixels
  /\ ret.stegoPixels #
       clientEncodeLSB(ret.coverPixels,
                       textToBits(arg.message, arg.size[1] * arg.size[2]),
                       arg.size[1], arg.size[2])

====
